---- MODULE Spec2Model ----
(***************************************************************************)
(* State-machine model of t-young31/excalibur-tests:                       *)
(*   - apps/gromacs: the two ReFrame benchmark classes that resolve the    *)
(*     MPI task / OpenMP thread / node layout (SpecResolve);               *)
(*   - one-line-benchmark/gromacs: the standalone runner (SpecRunner);     *)
(*   - doc/inject_plots.py: log-line parsing (SpecParse), plot             *)
(*     construction (SpecPlot) and log-file grouping (SpecGroup), the      *)
(*     time-series cache (SpecSeries), the HTML target (SpecHtml) and the  *)
(*     block and bin averaging functions (SpecBlocks, SpecSmooth).         *)
(* Python strings are TLA+ strings, read character by character with       *)
(* SubSeq; Python's None is the empty tuple and a set value v is <<v>>.    *)
(***************************************************************************)
EXTENDS Integers, Sequences, FiniteSets, TLC

VARIABLES
    test,        \* apps: the RegressionTest object (both variants)
    omp_env,     \* runner: module global OMP_NUM_THREADS
    benchmarks,  \* runner: the GROMACSBenchmarks list
    cache,       \* runner: pickle files on disk, filename -> pickled __dict__
    launches,    \* runner: mpirun subprocesses launched so far
    rpc,         \* runner: position inside GROMACSBenchmarks.run
    bench,       \* doc: the Benchmark object set_from was called on
    bench_in,    \* doc: the arguments of that call
    bench_exc,   \* doc: the exception set_from raised, or NoExc
    perflogs,    \* doc: the files glob() yields, in order, with their lines
    plot,        \* doc: the StrongScalingPlot under construction
    file_groups, \* doc: the last value of StrongScalingPlot._log_file_groups
    ts_tree,     \* doc: the folders of ../perflogs with their log files
    ts_cache,    \* doc: the lines of .regression_plot.txt, or None
    ts_plot,     \* doc: the TimeSeriesRegressionPlot under construction
    html,        \* doc: the target HTMLFile and the last call on it
    call         \* a call of a function without state: arguments and result

vars == <<test, omp_env, benchmarks, cache, launches, rpc,
          bench, bench_in, bench_exc, perflogs, plot, file_groups,
          ts_tree, ts_cache, ts_plot, html, call>>

resolveVars == <<test>>
runnerVars == <<omp_env, benchmarks, cache, launches, rpc>>
parseVars == <<bench, bench_in, bench_exc>>
plotVars == <<perflogs, plot, file_groups>>
seriesVars == <<ts_tree, ts_cache, ts_plot>>
htmlVars == <<html>>
callVars == <<call>>

\* Python's None for an optional attribute is the empty tuple; a value v that
\* is set is <<v>>.
None == <<>>
Some(v) == <<v>>
Val(o) == o[1]

\* No exception was raised.
NoExc == "NoExc"

\* An exception: its type, the call that raised it, and what its message
\* names (the log line, the metric, the file, the offending value).
Exc(type, origin, mentions) ==
    [type |-> type, origin |-> origin, mentions |-> mentions]

NoError == Exc(NoExc, "", {})

(***************************************************************************)
(* Bounds of the model.                                                    *)
(***************************************************************************)
MaxCores == 9
MaxThreads == 5
MaxCpusPerNode == 4
MaxRunCores == 5
MaxRunThreads == 3
MaxBench == 2
MaxThreshold == 2
MaxPlotFiles == 2
MaxFiles == 3
MaxFolders == 2
MaxCacheLines == 1
MaxPoints == 2
MaxSeries == 2
MaxArrayLen == 3
MaxBlockSize == 3
MaxRamp == 10
MaxHtmlLines == 3
MaxIdx == 1
MaxBins == 3
MaxClusters == 7
MaxPlots == 2

(***************************************************************************)
(* Python string operations.                                               *)
(***************************************************************************)

Ch(s, i) == SubSeq(s, i, i)

Min(S) == CHOOSE m \in S : \A k \in S : m <= k

\* sub in s
StrIn(sub, s) ==
    \E i \in 1 .. (Len(s) - Len(sub) + 1) : SubSeq(s, i, i + Len(sub) - 1) = sub

\* s.split(sep) for a one-character separator: always at least one field.
RECURSIVE Split(_, _)
Split(s, sep) ==
    IF ~StrIn(sep, s)
    THEN <<s>>
    ELSE LET i == Min({k \in 1 .. Len(s) : Ch(s, k) = sep})
         IN <<SubSeq(s, 1, i - 1)>> \o Split(SubSeq(s, i + 1, Len(s)), sep)

Whitespace == {" ", "\t", "\n", "\r"}

\* s.split(): fields between runs of whitespace, none of them empty.
RECURSIVE SplitWs(_)
SplitWs(s) ==
    IF s = ""
    THEN <<>>
    ELSE IF Ch(s, 1) \in Whitespace
    THEN SplitWs(SubSeq(s, 2, Len(s)))
    ELSE LET ends == {k \in 1 .. Len(s) : Ch(s, k) \in Whitespace}
             e == IF ends = {} THEN Len(s) + 1 ELSE Min(ends)
         IN <<SubSeq(s, 1, e - 1)>> \o SplitWs(SubSeq(s, e, Len(s)))

\* s.strip()
Strip(s) ==
    LET keep == {k \in 1 .. Len(s) : Ch(s, k) \notin Whitespace}
    IN IF keep = {} THEN ""
       ELSE SubSeq(s, Min(keep), CHOOSE m \in keep : \A k \in keep : k <= m)

\* ''.join(parts)
RECURSIVE Join(_)
Join(parts) == IF parts = <<>> THEN "" ELSE Head(parts) \o Join(Tail(parts))

DigitChars == "0123456789"
IsDigit(c) == \E d \in 1 .. 10 : Ch(DigitChars, d) = c
DigitVal(c) == (CHOOSE d \in 1 .. 10 : Ch(DigitChars, d) = c) - 1
AllDigits(s) == \A k \in 1 .. Len(s) : IsDigit(Ch(s, k))

\* The number a string of digits denotes ("" denotes 0).
RECURSIVE DigitsVal(_)
DigitsVal(s) ==
    IF s = "" THEN 0
    ELSE 10 * DigitsVal(SubSeq(s, 1, Len(s) - 1)) + DigitVal(Ch(s, Len(s)))

RECURSIVE StripTrailingZeros(_)
StripTrailingZeros(s) ==
    IF s # "" /\ Ch(s, Len(s)) = "0"
    THEN StripTrailingZeros(SubSeq(s, 1, Len(s) - 1))
    ELSE s

\* float(s) for the decimal literals [sign] digits [. digits] (surrounding
\* whitespace is stripped); the value is num / 10^scale with the smallest
\* scale, so equal numbers have equal records. None: float raises ValueError.
\* Exponents, inf, nan and digit-group underscores are not in any string the
\* model feeds to it.
ParseFloat(s) ==
    LET t == Strip(s)
        signed == t # "" /\ Ch(t, 1) \in {"+", "-"}
        body == IF signed THEN SubSeq(t, 2, Len(t)) ELSE t
        parts == Split(body, ".")
        ip == parts[1]
        fp == IF Len(parts) >= 2 THEN parts[2] ELSE ""
        ok == /\ Len(parts) <= 2
              /\ AllDigits(ip) /\ AllDigits(fp)
              /\ Len(ip) + Len(fp) >= 1
        frac == StripTrailingZeros(fp)
        mag == DigitsVal(ip \o frac)
    IN IF ~ok THEN None
       ELSE Some([num |-> IF signed /\ Ch(t, 1) = "-" THEN 0 - mag ELSE mag,
                  scale |-> Len(frac)])

\* int(s) for [sign] digits; None: int raises ValueError.
ParseInt(s) ==
    LET t == Strip(s)
        signed == t # "" /\ Ch(t, 1) \in {"+", "-"}
        body == IF signed THEN SubSeq(t, 2, Len(t)) ELSE t
    IN IF body = "" \/ ~AllDigits(body) THEN None
       ELSE Some(IF signed /\ Ch(t, 1) = "-"
                 THEN 0 - DigitsVal(body) ELSE DigitsVal(body))

(***************************************************************************)
(* apps/gromacs: set_attributes_after_setup                                *)
(***************************************************************************)

\* Python's a // b on non-negative integers.
FloorDiv(a, b) == a \div b

\* math.ceil(a / b) for positive b (exact for the small integers used here).
CeilDiv(a, b) == (a + b - 1) \div b

Max(a, b) == IF a >= b THEN a ELSE b

\* What self._current_partition.processor.num_cpus gives: the attribute
\* lookup raises AttributeError (has_attr FALSE), or the value is None, or a
\* core count.
Processors ==
    {[has_attr |-> FALSE, num_cpus |-> None],
     [has_attr |-> TRUE, num_cpus |-> None]}
    \cup {[has_attr |-> TRUE, num_cpus |-> Some(n)] : n \in 1 .. MaxCpusPerNode}

Variants == {"DiRAC", "Strong"}

\* max(total // threads, 1)
NumTasks(total, threads) == Max(FloorDiv(total, threads), 1)

\* The try block of DiRACTest: a None core count is turned into an
\* AttributeError, which the except clause catches.
NodesDiRAC(tasks, proc) ==
    IF ~proc.has_attr \/ proc.num_cpus = None
    THEN [num_nodes |-> Some(1), warned |-> TRUE, raised |-> NoExc]
    ELSE [num_nodes |-> Some(CeilDiv(tasks, Val(proc.num_cpus))),
          warned |-> FALSE, raised |-> NoExc]

\* The try block of GROMACSBenchmark (strong scaling file): only
\* AttributeError is caught; num_tasks / None raises TypeError.
NodesStrong(tasks, proc) ==
    IF ~proc.has_attr
    THEN [num_nodes |-> Some(1), warned |-> TRUE, raised |-> NoExc]
    ELSE IF proc.num_cpus = None
    THEN [num_nodes |-> None, warned |-> FALSE, raised |-> "TypeError"]
    ELSE [num_nodes |-> Some(CeilDiv(tasks, Val(proc.num_cpus))),
          warned |-> FALSE, raised |-> NoExc]

\* math.ceil(tasks / nodes)
TasksPerNodeFloor(tasks, nodes) == FloorDiv(tasks, nodes)
TasksPerNode(tasks, nodes) == CeilDiv(tasks, nodes)

\* The clamp: fewer total cores than OMP threads -> use the total cores.
CpusPerTaskNoClamp(total, threads) == threads
CpusPerTask(total, threads) ==
    IF FloorDiv(total, threads) = 0 THEN total ELSE threads

\* A test object before the 'setup' stage: only the requested values are set.
\* requested_threads keeps the value num_omp_threads had on entry.
NewTest(variant, total, threads, proc) ==
    [variant |-> variant, stage |-> "created",
     num_total_cores |-> total, requested_threads |-> threads,
     processor |-> proc,
     num_omp_threads |-> threads,
     num_tasks |-> None, num_nodes |-> None, num_tasks_per_node |-> None,
     num_cpus_per_task |-> None, OMP_NUM_THREADS |-> None,
     num_slots |-> None, warned_nodes |-> FALSE, warned_threads |-> FALSE,
     raised |-> NoExc]

\* DiRACTest.set_attributes_after_setup
SetAttributesDiRAC(t) ==
    LET tasks == NumTasks(t.num_total_cores, t.num_omp_threads)
        n == NodesDiRAC(tasks, t.processor)
        tpn == TasksPerNode(tasks, Val(n.num_nodes))
        clamp == FloorDiv(t.num_total_cores, t.num_omp_threads) = 0
        cpt == CpusPerTask(t.num_total_cores, t.num_omp_threads)
    IN [t EXCEPT !.stage = "setup_done",
                 !.num_tasks = Some(tasks),
                 !.num_nodes = n.num_nodes,
                 !.warned_nodes = n.warned,
                 !.num_tasks_per_node = Some(tpn),
                 !.warned_threads = clamp,
                 !.num_omp_threads = cpt,
                 !.num_cpus_per_task = Some(cpt),
                 !.OMP_NUM_THREADS = Some(cpt),
                 !.num_slots = Some(tasks * cpt)]

\* GROMACSBenchmark.set_attributes_after_setup (strong scaling file)
SetAttributesStrong(t) ==
    LET tasks == NumTasks(t.num_total_cores, t.num_omp_threads)
        n == NodesStrong(tasks, t.processor)
    IN IF n.raised # NoExc
       THEN [t EXCEPT !.stage = "setup_raised",
                      !.num_tasks = Some(tasks),
                      !.raised = n.raised]
       ELSE
       LET tpn == TasksPerNode(tasks, Val(n.num_nodes))
           clamp == FloorDiv(t.num_total_cores, t.num_omp_threads) = 0
           cpt == CpusPerTask(t.num_total_cores, t.num_omp_threads)
       IN [t EXCEPT !.stage = "setup_done",
                    !.num_tasks = Some(tasks),
                    !.num_nodes = n.num_nodes,
                    !.warned_nodes = n.warned,
                    !.num_tasks_per_node = Some(tpn),
                    !.warned_threads = clamp,
                    !.num_cpus_per_task = Some(cpt),
                    !.OMP_NUM_THREADS = Some(cpt),
                    !.num_slots = Some(tasks * cpt)]

TestIdle == [stage |-> "idle"]

AfterSetupDiRAC ==
    /\ test.stage = "created"
    /\ test.variant = "DiRAC"
    /\ test' = SetAttributesDiRAC(test)
    /\ UNCHANGED <<runnerVars, parseVars, plotVars>>
    /\ UNCHANGED <<seriesVars, htmlVars, callVars>>

AfterSetupStrong ==
    /\ test.stage = "created"
    /\ test.variant = "Strong"
    /\ test' = SetAttributesStrong(test)
    /\ UNCHANGED <<runnerVars, parseVars, plotVars>>
    /\ UNCHANGED <<seriesVars, htmlVars, callVars>>

NextResolve == AfterSetupDiRAC \/ AfterSetupStrong

(***************************************************************************)
(* one-line-benchmark/gromacs: the standalone runner                       *)
(***************************************************************************)

GromacsSpec == "gromacs@2019%gcc@9.3.0^openmpi@4.1.1"

\* What run_subprocess returns as stdout for 'spack location -i <spec>':
\* the decoded lines of the output, so an empty output is one empty line.
LocationOutputs ==
    {<<"/opt/spack/gromacs", "">>,
     <<"">>,
     <<"error: no installed package matches", "">>}

\* What the mpirun subprocess leaves on stderr.
StderrOutputs ==
    {<<"GROMACS reminds you", "Performance: 12.5 1.92", "">>,
     <<"GROMACS reminds you", "">>,
     <<"Performance: 12.5", "">>,
     <<"Performance: n/a ns/day", "">>}

\* GROMACSBenchmark.__init__
NewBenchmark(spec, n) ==
    [spec |-> spec, n_cores |-> n, stdout |-> None, stderr |-> None]

\* GROMACSBenchmarks.__init__ over range(start, start + len * step, step)
NewBenchmarks(spec, start, step, len) ==
    [i \in 1 .. len |-> NewBenchmark(spec, start + (i - 1) * step)]

\* os.path.join(a, b) for a relative b
OsPathJoin(a, b) ==
    IF a = "" THEN b
    ELSE IF Ch(a, Len(a)) = "/" THEN a \o b
    ELSE a \o "/" \o b

\* GROMACSBenchmark.gmx_path from the stdout of 'spack location'
GmxPath(stdout) ==
    IF Len(stdout) = 0 \/ StrIn("error", stdout[1])
    THEN None
    ELSE Some(OsPathJoin(OsPathJoin(stdout[1], "bin"), "gmx_mpi"))

\* n_tasks = self.n_cores // int(OMP_NUM_THREADS)
RunNumTasks(n_cores, omp) == FloorDiv(n_cores, omp)

\* GROMACSBenchmark.performance
RECURSIVE PerformanceFrom(_)
PerformanceFrom(lines) ==
    IF lines = <<>>
    THEN [value |-> None, raised |-> NoExc]
    ELSE IF StrIn("Performance:", Head(lines)) /\ Len(SplitWs(Head(lines))) = 3
    THEN LET v == ParseFloat(SplitWs(Head(lines))[2])
         IN IF v = None
            THEN [value |-> None, raised |-> "ValueError"]
            ELSE [value |-> v, raised |-> NoExc]
    ELSE PerformanceFrom(Tail(lines))

Performance(b) ==
    IF b.stderr = None
    THEN [value |-> None, raised |-> NoExc]
    ELSE PerformanceFrom(Val(b.stderr))

\* str(self) + '.p'
PickleFilename(b) == <<"GROMACS_benchmark_", b.spec, "_", b.n_cores, ".p">>

\* A cache_exists that never sees the file.
CacheNeverExists(files, b) == FALSE

\* GROMACSBenchmark.cache_exists
CacheExists(files, b) == PickleFilename(b) \in DOMAIN files

\* GROMACSBenchmark.run: the object afterwards and the mpirun call it made
\* (None when it returned before the call).
BenchmarkRun(b, omp, location, stderr_out) ==
    IF GmxPath(location) = None
    THEN [b |-> b, launch |-> None]
    ELSE [b |-> [b EXCEPT !.stdout = Some(<<"">>), !.stderr = Some(stderr_out)],
          launch |-> Some([n_cores |-> b.n_cores,
                           np |-> RunNumTasks(b.n_cores, omp),
                           gmx_path |-> Val(GmxPath(location))])]

\* A save that writes the file whatever the performance is.
BenchmarkSaveAlways(files, b) ==
    [f \in DOMAIN files \cup {PickleFilename(b)} |->
        IF f = PickleFilename(b) THEN b ELSE files[f]]

\* GROMACSBenchmark.save: the files afterwards (unchanged too when the
\* performance property raises)
BenchmarkSave(files, b) ==
    IF Performance(b).value = None
    THEN files
    ELSE [f \in DOMAIN files \cup {PickleFilename(b)} |->
            IF f = PickleFilename(b) THEN b ELSE files[f]]

\* GROMACSBenchmark.load: self.__dict__.update(pickle.load(...))
BenchmarkLoad(files, b) == files[PickleFilename(b)]

NoFiles == [f \in {} |-> None]

\* GROMACSBenchmarks.run with an empty list: warn and return.
RunEmpty ==
    /\ rpc.phase = "idle"
    /\ Len(benchmarks) = 0
    /\ rpc' = [phase |-> "done", i |-> 0]
    /\ UNCHANGED <<omp_env, benchmarks, cache, launches>>
    /\ UNCHANGED <<resolveVars, parseVars, plotVars>>
    /\ UNCHANGED <<seriesVars, htmlVars, callVars>>

\* GROMACSBenchmarks.run up to the loop: self[0].install(). launches records
\* the mpirun calls of the current invocation of run().
RunInstall ==
    /\ rpc.phase = "idle"
    /\ Len(benchmarks) > 0
    /\ rpc' = [phase |-> "loop", i |-> 1]
    /\ launches' = <<>>
    /\ UNCHANGED <<omp_env, benchmarks, cache>>
    /\ UNCHANGED <<resolveVars, parseVars, plotVars>>
    /\ UNCHANGED <<seriesVars, htmlVars, callVars>>

\* One pass of the loop for a benchmark whose cache file exists.
RunLoadCached ==
    /\ rpc.phase = "loop"
    /\ rpc.i <= Len(benchmarks)
    /\ CacheExists(cache, benchmarks[rpc.i])
    /\ benchmarks' = [benchmarks EXCEPT
                        ![rpc.i] = BenchmarkLoad(cache, benchmarks[rpc.i])]
    /\ rpc' = [rpc EXCEPT !.i = rpc.i + 1]
    /\ UNCHANGED <<omp_env, cache, launches>>
    /\ UNCHANGED <<resolveVars, parseVars, plotVars>>
    /\ UNCHANGED <<seriesVars, htmlVars, callVars>>

\* One pass of the loop for a benchmark without a cache file: run, then save.
RunBenchmark ==
    /\ rpc.phase = "loop"
    /\ rpc.i <= Len(benchmarks)
    /\ ~CacheExists(cache, benchmarks[rpc.i])
    /\ \E location \in LocationOutputs, stderr_out \in StderrOutputs :
        LET r == BenchmarkRun(benchmarks[rpc.i], omp_env, location, stderr_out)
        IN /\ benchmarks' = [benchmarks EXCEPT ![rpc.i] = r.b]
           /\ launches' = IF r.launch = None THEN launches
                          ELSE Append(launches, Val(r.launch))
           /\ cache' = BenchmarkSave(cache, r.b)
           /\ rpc' = IF Performance(r.b).raised # NoExc
                     THEN [phase |-> "raised", i |-> rpc.i]
                     ELSE [rpc EXCEPT !.i = rpc.i + 1]
    /\ UNCHANGED omp_env
    /\ UNCHANGED <<resolveVars, parseVars, plotVars>>
    /\ UNCHANGED <<seriesVars, htmlVars, callVars>>

\* The loop is over: run() returns.
RunReturn ==
    /\ rpc.phase = "loop"
    /\ rpc.i > Len(benchmarks)
    /\ rpc' = [phase |-> "done", i |-> 0]
    /\ UNCHANGED <<omp_env, benchmarks, cache, launches>>
    /\ UNCHANGED <<resolveVars, parseVars, plotVars>>
    /\ UNCHANGED <<seriesVars, htmlVars, callVars>>

\* run() is invoked again on the same list.
RunAgain ==
    /\ rpc.phase = "done"
    /\ Len(benchmarks) > 0
    /\ rpc' = [phase |-> "idle", i |-> 0]
    /\ UNCHANGED <<omp_env, benchmarks, cache, launches>>
    /\ UNCHANGED <<resolveVars, parseVars, plotVars>>
    /\ UNCHANGED <<seriesVars, htmlVars, callVars>>

\* The value deviation_from_linear returns when no y values were defined.
NoTargetDeviation == -1

\* [b.n_cores for b in self], [b.performance for b in self]
CoreCounts(bs) == [k \in 1 .. Len(bs) |-> bs[k].n_cores]
Performances(bs) == [k \in 1 .. Len(bs) |-> Performance(bs[k]).value]

\* 'if x and y' for an int x and a float or None y
BothTruthy(x, y) == x # 0 /\ y # None /\ Val(y).num # 0

\* The positions zip(xs, ys) keeps for _xs and _ys.
KeptPoints(xs, ys) ==
    {k \in 1 .. Min({Len(xs), Len(ys)}) : BothTruthy(xs[k], ys[k])}

\* linregress(_xs, _ys) and the root mean square after it: scipy raises
\* ValueError for empty inputs; otherwise a float (possibly nan) comes back,
\* kept here as the points the regression was run on.
RegressionOver(xs, ys, kept) ==
    IF kept = {}
    THEN [result |-> None, exc |-> Exc("ValueError", "linregress", {"inputs"})]
    ELSE [result |-> Some([regression_over |->
                             {<<xs[k], Val(ys[k])>> : k \in kept}]),
          exc |-> NoError]

\* GROMACSBenchmarks.deviation_from_linear(xs, ys)
DeviationFromLinear(xs, ys) ==
    IF Len(ys) = 0
    THEN [result |-> Some(NoTargetDeviation), exc |-> NoError]
    ELSE RegressionOver(xs, ys, KeptPoints(xs, ys))

\* The call of deviation_from_linear returned or raised.
DeviationCalled(xs, ys, r) ==
    [fn |-> "deviation_from_linear", args |-> <<xs, ys>>,
     result |-> r.result, exc |-> r.exc]

\* GROMACSBenchmarks.print_results, called once run() has returned.
PrintResults ==
    /\ rpc.phase = "done"
    /\ rpc' = [phase |-> "printed", i |-> 0]
    /\ call' = DeviationCalled(CoreCounts(benchmarks), Performances(benchmarks),
                               DeviationFromLinear(CoreCounts(benchmarks),
                                                   Performances(benchmarks)))
    /\ UNCHANGED <<omp_env, benchmarks, cache, launches>>
    /\ UNCHANGED <<resolveVars, parseVars, plotVars, seriesVars, htmlVars>>

NextRunner ==
    \/ RunEmpty
    \/ RunInstall
    \/ RunLoadCached
    \/ RunBenchmark
    \/ RunReturn
    \/ RunAgain
    \/ PrintResults

(***************************************************************************)
(* doc/inject_plots.py: Benchmark (one parsed log line)                    *)
(***************************************************************************)

\* Benchmark.__init__
Benchmark(metric) ==
    [metric |-> metric, value |-> None, units |-> None, date |-> None,
     num_total_cores |-> None, num_omp_threads |-> None, num_nodes |-> None]

\* Benchmark._set_metric: the metric name is read from the fifth field.
MetricFieldIndex == 5

SetMetricUnchecked(b, line) ==
    LET fields == Split(line, "|")
    IN IF Len(fields) < MetricFieldIndex
       THEN [b |-> b, exc |-> Exc("RuntimeError", "_set_metric", {"line"})]
       ELSE [b |-> [b EXCEPT !.metric =
                        Split(fields[MetricFieldIndex], "=")[1]],
             exc |-> NoError]

SetMetricNoWildcard(b, line) ==
    LET fields == Split(line, "|")
    IN IF Len(fields) < MetricFieldIndex
       THEN [b |-> b, exc |-> Exc("RuntimeError", "_set_metric", {"line"})]
       ELSE LET extracted_metric == Split(fields[MetricFieldIndex], "=")[1]
            IN IF extracted_metric # b.metric
               THEN [b |-> b,
                     exc |-> Exc("RuntimeError", "_set_metric",
                                 {"metric", "line"})]
               ELSE [b |-> [b EXCEPT !.metric = extracted_metric],
                     exc |-> NoError]

SetMetric(b, line) ==
    LET fields == Split(line, "|")
    IN IF Len(fields) < MetricFieldIndex
       THEN [b |-> b, exc |-> Exc("RuntimeError", "_set_metric", {"line"})]
       ELSE LET extracted_metric == Split(fields[MetricFieldIndex], "=")[1]
            IN IF b.metric # "*" /\ extracted_metric # b.metric
               THEN [b |-> b,
                     exc |-> Exc("RuntimeError", "_set_metric",
                                 {"metric", "line"})]
               ELSE [b |-> [b EXCEPT !.metric = extracted_metric],
                     exc |-> NoError]

\* Benchmark._value_of: next(x.split('=')[1] for x in line.split('|') if s in x)
ValueOf(s, line) ==
    LET fields == Split(line, "|")
        hits == {k \in 1 .. Len(fields) : StrIn(s, fields[k])}
    IN IF hits = {}
       THEN [value |-> None, exc |-> Exc("StopIteration", "_value_of", {})]
       ELSE LET parts == Split(fields[Min(hits)], "=")
            IN IF Len(parts) < 2
               THEN [value |-> None,
                     exc |-> Exc("IndexError", "_value_of", {})]
               ELSE [value |-> Some(parts[2]), exc |-> NoError]

\* What float(...) or int(...) gives for a string: the number p, or
\* ValueError when the string denotes none.
Parsed(p, fn) ==
    IF p = None
    THEN [value |-> None, exc |-> Exc("ValueError", fn, {"value"})]
    ELSE [value |-> p, exc |-> NoError]

\* float(v) and int(v) for the outcome v of _value_of, whose exception
\* passes through.
FloatOf(v) ==
    IF v.exc # NoError THEN v ELSE Parsed(ParseFloat(Val(v.value)), "float")

IntOf(v) ==
    IF v.exc # NoError THEN v ELSE Parsed(ParseInt(Val(v.value)), "int")

\* int(self._value_of(s, line))
IntValueOf(s, line) == IntOf(ValueOf(s, line))

IsLeapYear(y) == (y % 4 = 0 /\ y % 100 # 0) \/ y % 400 = 0

DaysInMonth(y, m) ==
    IF m = 2 THEN (IF IsLeapYear(y) THEN 29 ELSE 28)
    ELSE IF m \in {4, 6, 9, 11} THEN 30 ELSE 31

\* date.fromisoformat(s) for the form YYYY-MM-DD; None: it raises ValueError.
\* The strings the model feeds to it are of that form or hold no digit.
DateFromIsoFormat(s) ==
    IF /\ Len(s) = 10
       /\ Ch(s, 5) = "-" /\ Ch(s, 8) = "-"
       /\ AllDigits(SubSeq(s, 1, 4))
       /\ AllDigits(SubSeq(s, 6, 7))
       /\ AllDigits(SubSeq(s, 9, 10))
    THEN LET y == DigitsVal(SubSeq(s, 1, 4))
             m == DigitsVal(SubSeq(s, 6, 7))
             d == DigitsVal(SubSeq(s, 9, 10))
         IN IF y >= 1 /\ m \in 1 .. 12 /\ d \in 1 .. DaysInMonth(y, m)
            THEN Some(<<y, m, d>>)
            ELSE None
    ELSE None

\* Benchmark._set_date
DateOf(line) ==
    LET words == SplitWs(line)
    IN IF words = <<>>
       THEN [value |-> None, exc |-> Exc("IndexError", "_set_date", {})]
       ELSE LET d == DateFromIsoFormat(Split(words[1], "T")[1])
            IN IF d = None
               THEN [value |-> None,
                     exc |-> Exc("ValueError", "fromisoformat", {"value"})]
               ELSE [value |-> d, exc |-> NoError]

\* Benchmark.set_from: the object afterwards (attributes assigned before an
\* exception stay assigned) and the exception raised, if any.
\* The statements of set_from run in order, each one on the object the
\* previous one left and only if none before it raised.
Assign(b, attr, v) ==
    IF v.exc # NoError THEN [b |-> b, exc |-> v.exc]
    ELSE [b |-> [b EXCEPT ![attr] = v.value], exc |-> NoError]

SetValue(r, line) ==
    IF r.exc # NoError THEN r
    ELSE Assign(r.b, "value", FloatOf(ValueOf(r.b.metric, line)))

SetUnits(r, line) ==
    IF r.exc # NoError THEN r
    ELSE Assign(r.b, "units", ValueOf("units", line))

SetDate(r, line) ==
    IF r.exc # NoError THEN r ELSE Assign(r.b, "date", DateOf(line))

SetCount(r, attr, line) ==
    IF r.exc # NoError THEN r ELSE Assign(r.b, attr, IntValueOf(attr, line))

SetFrom(b0, line) ==
    SetCount(
      SetCount(
        SetCount(
          SetDate(SetUnits(SetValue(SetMetric(b0, line), line), line), line),
          "num_total_cores", line),
        "num_omp_threads", line),
      "num_nodes", line)

\* The log lines fed to the parser. LiteralLine is the line of the
\* ReFrameLogFile docstring; the others put the metric in the fifth field
\* (with and without the units= and core-count fields) or have too few fields.
LiteralLine ==
    "2020-08-19T16:20:21+01:00|x|IMB_Pingpong|max_bandwidth=3041.25|Mbytes/sec|x|x"

Timestamps == {"2020-08-19T16:20:21+01:00", "x"}
MetricNames == {"Rate", "max_bandwidth"}
MetricValues == {"3041.25", "abc", "12"}
RequestedMetrics == {"*"} \cup MetricNames

LineDoc(ts, m, v) ==
    ts \o "|x|IMB_Pingpong|" \o m \o "=" \o v \o "|Mbytes/sec|x|x"

LinePerf(ts, m, v, cores) ==
    ts \o "|reframe 3.10|Strong|jobid=1|" \o m \o "=" \o v
       \o "|units=ns/day|num_total_cores=" \o cores
       \o "|num_omp_threads=2|num_nodes=1\n"

LineNoUnits(ts, m, v) ==
    ts \o "|reframe 3.10|Strong|jobid=1|" \o m \o "=" \o v \o "|ns/day|x\n"

LineShort(ts, m, v) == ts \o "|x|Strong|" \o m \o "=" \o v \o "\n"

LogLines ==
    {LiteralLine}
    \cup {LineDoc(ts, m, v) : ts \in Timestamps, m \in MetricNames,
                              v \in MetricValues}
    \cup {LinePerf(ts, m, v, "8") : ts \in Timestamps, m \in MetricNames,
                                    v \in MetricValues}
    \cup {LineNoUnits(ts, m, v) : ts \in Timestamps, m \in MetricNames,
                                  v \in MetricValues}
    \cup {LineShort(ts, m, v) : ts \in Timestamps, m \in MetricNames,
                                v \in MetricValues}

\* benchmark = Benchmark(metric=metric)
BenchmarkInit ==
    /\ bench = None
    /\ \E metric \in RequestedMetrics :
        /\ bench' = Some(Benchmark(metric))
        /\ bench_in' = Some([metric |-> metric, line |-> ""])
    /\ UNCHANGED bench_exc
    /\ UNCHANGED <<resolveVars, runnerVars, plotVars>>
    /\ UNCHANGED <<seriesVars, htmlVars, callVars>>

\* benchmark.set_from(line) on a fresh Benchmark
BenchmarkSetFrom ==
    /\ bench # None
    /\ Val(bench_in).line = ""
    /\ \E line \in LogLines :
        LET r == SetFrom(Val(bench), line)
        IN /\ bench' = Some(r.b)
           /\ bench_exc' = r.exc
           /\ bench_in' = Some([Val(bench_in) EXCEPT !.line = line])
    /\ UNCHANGED <<resolveVars, runnerVars, plotVars>>
    /\ UNCHANGED <<seriesVars, htmlVars, callVars>>

NextParse == BenchmarkInit \/ BenchmarkSetFrom

(***************************************************************************)
(* doc/inject_plots.py: ReFrameLogFile, AutoGeneratedPlot and              *)
(* StrongScalingPlot                                                       *)
(***************************************************************************)

\* s.replace(old, new) for a non-empty old
RECURSIVE StrReplace(_, _, _)
StrReplace(s, old, new) ==
    IF Len(s) < Len(old) THEN s
    ELSE IF SubSeq(s, 1, Len(old)) = old
    THEN new \o StrReplace(SubSeq(s, Len(old) + 1, Len(s)), old, new)
    ELSE Ch(s, 1) \o StrReplace(SubSeq(s, 2, Len(s)), old, new)

\* sep.join(parts)
RECURSIVE JoinWith(_, _)
JoinWith(sep, parts) ==
    IF parts = <<>> THEN ""
    ELSE IF Len(parts) = 1 THEN parts[1]
    ELSE parts[1] \o sep \o JoinWith(sep, Tail(parts))

\* ReFrameLogFile.extract: one Benchmark per line, appended once set_from
\* has returned; an exception of set_from ends the loop.
RECURSIVE ExtractFrom(_, _, _)
AppendBenchmark(r, lines, metric, acc) ==
    IF r.exc # NoError
    THEN [benchmarks |-> acc, exc |-> r.exc]
    ELSE ExtractFrom(Tail(lines), metric, Append(acc, r.b))

ExtractFrom(lines, metric, acc) ==
    IF lines = <<>>
    THEN [benchmarks |-> acc, exc |-> NoError]
    ELSE AppendBenchmark(SetFrom(Benchmark(metric), Head(lines)),
                         lines, metric, acc)

\* ReFrameLogFile.__init__ with a metric, on a file that exists: the object
\* f, or the exception that leaves the constructor.
Extracted(filename, r) ==
    [f |-> [filename |-> filename, benchmarks |-> r.benchmarks],
     exc |-> r.exc]

ReFrameLogFile(file, metric) ==
    Extracted(file.filename, ExtractFrom(file.lines, metric, <<>>))

\* ReFrameLogFile.directory: ''.join(self.filename.split('/')[2:-1])
Directory(f) ==
    LET parts == Split(f.filename, "/")
    IN Join(SubSeq(parts, 3, Len(parts) - 1))

\* ReFrameLogFile.file_path_no_perflogs
FilePathNoPerflogs(f) == StrReplace(f.filename, "../perflogs/", "")

\* ReFrameLogFile.n_cores
NCores(f) ==
    IF f.benchmarks = <<>>
    THEN [value |-> None, exc |-> Exc("StopIteration", "n_cores", {})]
    ELSE IF \E k \in 1 .. Len(f.benchmarks) :
              f.benchmarks[k].num_total_cores # f.benchmarks[1].num_total_cores
    THEN [value |-> None, exc |-> Exc("RuntimeError", "n_cores", {})]
    ELSE [value |-> f.benchmarks[1].num_total_cores, exc |-> NoError]

\* ReFrameLogFileGroup.name and .truncated_name
GroupName(group) ==
    LET parts == Split(FilePathNoPerflogs(group[1]), "/")
    IN JoinWith("_", SubSeq(parts, 1, Len(parts) - 1))

TruncatedName(group) == Split(GroupName(group), "_")[1] \o "..."

\* AutoGeneratedPlot.__init__, the loop: a ReFrameLogFile per globbed path
RECURSIVE LoadLogFiles(_, _, _)
AppendLogFile(r, files, metric, acc) ==
    IF r.exc # NoError
    THEN [log_files |-> acc, exc |-> r.exc]
    ELSE LoadLogFiles(Tail(files), metric, Append(acc, r.f))

LoadLogFiles(files, metric, acc) ==
    IF files = <<>>
    THEN [log_files |-> acc, exc |-> NoError]
    ELSE AppendLogFile(ReFrameLogFile(Head(files), metric),
                       files, metric, acc)

\* A count of differing characters that also counts the characters only the
\* longer string has.
NDiffCharsWithLength(string1, string2) ==
    LET n == IF Len(string1) <= Len(string2) THEN Len(string1)
             ELSE Len(string2)
        m == IF Len(string1) <= Len(string2) THEN Len(string2)
             ELSE Len(string1)
    IN Cardinality({k \in 1 .. n : Ch(string1, k) # Ch(string2, k)}) + (m - n)

\* StrongScalingPlot._n_diff_chars: zip stops at the shorter string
NDiffChars(string1, string2) ==
    LET n == IF Len(string1) <= Len(string2) THEN Len(string1)
             ELSE Len(string2)
    IN Cardinality({k \in 1 .. n : Ch(string1, k) # Ch(string2, k)})

\* The test of the inner loop of _log_file_groups
SimilarInclusive(f, group, threshold) ==
    NDiffChars(Directory(f), Directory(group[1])) <= threshold
Similar(f, group, threshold) ==
    NDiffChars(Directory(f), Directory(group[1])) < threshold

\* One pass of the outer loop of _log_file_groups: f joins the first group
\* that is similar enough, else it starts a new group at the end.
AddToGroups(groups, f, threshold) ==
    LET fits == {g \in 1 .. Len(groups) : Similar(f, groups[g], threshold)}
    IN IF fits = {}
       THEN Append(groups, <<f>>)
       ELSE [groups EXCEPT ![Min(fits)] = Append(@, f)]

RECURSIVE GroupFrom(_, _, _)
GroupFrom(files, groups, threshold) ==
    IF files = <<>> THEN groups
    ELSE GroupFrom(Tail(files), AddToGroups(groups, Head(files), threshold),
                   threshold)

\* StrongScalingPlot._log_file_groups
LogFileGroups(log_files, threshold) ==
    IF Len(log_files) = 0
    THEN [groups |-> <<>>, exc |-> Exc("RuntimeError", "_log_file_groups", {})]
    ELSE [groups |-> GroupFrom(log_files, <<>>, threshold), exc |-> NoError]

\* sorted(log_file_group, key=lambda f: f.n_cores): a stable sort
RECURSIVE InsertByNCores(_, _)
InsertByNCores(sorted, f) ==
    IF sorted = <<>> THEN <<f>>
    ELSE IF Val(NCores(f).value) < Val(NCores(sorted[Len(sorted)]).value)
    THEN Append(InsertByNCores(SubSeq(sorted, 1, Len(sorted) - 1), f),
                sorted[Len(sorted)])
    ELSE Append(sorted, f)

RECURSIVE SortedByNCores(_)
SortedByNCores(fs) ==
    IF fs = <<>> THEN <<>>
    ELSE InsertByNCores(SortedByNCores(SubSeq(fs, 1, Len(fs) - 1)),
                        fs[Len(fs)])

\* StrongScalingPlot._plot_line: the series drawn for a group; the sort
\* evaluates n_cores of each file in turn and the first failure escapes.
PlotLine(group) ==
    LET bad == {k \in 1 .. Len(group) : NCores(group[k]).exc # NoError}
    IN IF bad # {}
       THEN [series |-> None, exc |-> NCores(group[Min(bad)]).exc]
       ELSE LET fs == SortedByNCores(group)
            IN [series |->
                  Some([name |-> TruncatedName(group),
                        n_cores |-> [k \in 1 .. Len(fs) |->
                                       Val(NCores(fs[k]).value)],
                        values |-> [k \in 1 .. Len(fs) |->
                            Val(fs[k].benchmarks[Len(fs[k].benchmarks)].value)]]),
                exc |-> NoError]

\* len(Dark2_6): zip(self._log_file_groups, Dark2_6) pairs at most that many
PaletteSize == 6

RECURSIVE PlotLines(_, _)
AppendSeries(r, groups, acc) ==
    IF r.exc # NoError
    THEN [series |-> acc, exc |-> r.exc]
    ELSE PlotLines(Tail(groups), Append(acc, Val(r.series)))

PlotLines(groups, acc) ==
    IF groups = <<>> \/ Len(acc) = PaletteSize
    THEN [series |-> acc, exc |-> NoError]
    ELSE AppendSeries(PlotLine(Head(groups)), groups, acc)

\* AutoGeneratedPlot._units
Units(log_files, metric) ==
    IF Len(log_files) = 0
    THEN [value |-> None, exc |-> Exc("RuntimeError", "_units", {})]
    ELSE LET bs == log_files[1].benchmarks
             hits == {k \in 1 .. Len(bs) : bs[k].metric = metric}
         IN IF hits = {}
            THEN [value |-> None, exc |-> Exc("StopIteration", "_units", {})]
            ELSE [value |-> bs[Min(hits)].units, exc |-> NoError]

\* StrongScalingPlot.bokeh_components: the series drawn, the names given to
\* the hover tool, and the exception that escapes, if any.
HoverNames(groups) == [k \in 1 .. Len(groups) |-> TruncatedName(groups[k])]

LinesDrawn(p, groups, log_files, metric) ==
    IF p.exc # NoError
    THEN [series |-> p.series, hover_names |-> <<>>, exc |-> p.exc]
    ELSE [series |-> p.series, hover_names |-> HoverNames(groups),
          exc |-> Units(log_files, metric).exc]

GroupsDrawn(g, log_files, metric) ==
    IF g.exc # NoError
    THEN [series |-> <<>>, hover_names |-> <<>>, exc |-> g.exc]
    ELSE LinesDrawn(PlotLines(g.groups, <<>>), g.groups, log_files, metric)

BokehComponents(log_files, metric) ==
    GroupsDrawn(LogFileGroups(log_files, 1), log_files, metric)

\* StrongScalingPlot(metric, files_path): the plot object, or the exception
\* that leaves the constructor (then there is no object).
NewPlot(status, metric, log_files, series, hover_names, exc) ==
    [status |-> status, metric |-> metric, log_files |-> log_files,
     series |-> series, hover_names |-> hover_names, exc |-> exc]

Drawn(c, metric, log_files) ==
    IF c.exc # NoError
    THEN NewPlot("failed", metric, <<>>, <<>>, <<>>, c.exc)
    ELSE NewPlot("constructed", metric, log_files, c.series, c.hover_names,
                 NoError)

Loaded(l, metric) ==
    IF l.exc # NoError
    THEN NewPlot("failed", metric, <<>>, <<>>, <<>>, l.exc)
    ELSE Drawn(BokehComponents(l.log_files, metric), metric, l.log_files)

StrongScalingPlot(metric, files) ==
    Loaded(LoadLogFiles(files, metric, <<>>), metric)

\* plot = plot_type(metric, files_path) in inject_all
ConstructPlot ==
    /\ plot.status = "requested"
    /\ plot' = StrongScalingPlot(plot.metric, perflogs)
    /\ UNCHANGED <<perflogs, file_groups>>
    /\ UNCHANGED <<resolveVars, runnerVars, parseVars>>
    /\ UNCHANGED <<seriesVars, htmlVars, callVars>>

\* The getter of plot._log_file_groups called on a constructed plot; the
\* attribute access passes no threshold, so it runs with the default 1.
GroupLogFiles ==
    /\ plot.status = "constructed"
    /\ file_groups = None
    /\ \E threshold \in 1 .. MaxThreshold :
        file_groups' = Some([threshold |-> threshold,
                        groups |-> LogFileGroups(plot.log_files,
                                                 threshold).groups])
    /\ UNCHANGED <<perflogs, plot>>
    /\ UNCHANGED <<resolveVars, runnerVars, parseVars>>
    /\ UNCHANGED <<seriesVars, htmlVars, callVars>>

NextPlot == ConstructPlot \/ GroupLogFiles

\* The files glob() yields for a pattern under ../perflogs.
PerflogsFile(path, lines) ==
    [filename |-> "../perflogs/" \o path, lines |-> lines]

GoodTimestamp == "2020-08-19T16:20:21+01:00"

\* Contents of a log file: well-formed lines of one metric, a line of another
\* metric, a non-numeric value, differing core counts, no line at all.
FileContents ==
    {<<LinePerf(GoodTimestamp, "Rate", "12", "8")>>,
     <<LinePerf(GoodTimestamp, "Rate", "12", "16"),
       LinePerf(GoodTimestamp, "Rate", "3041.25", "16")>>,
     <<LinePerf(GoodTimestamp, "max_bandwidth", "12", "8")>>,
     <<LinePerf(GoodTimestamp, "Rate", "12", "8"),
       LinePerf(GoodTimestamp, "max_bandwidth", "12", "8")>>,
     <<LinePerf(GoodTimestamp, "Rate", "abc", "8")>>,
     <<LinePerf(GoodTimestamp, "Rate", "12", "8"),
       LinePerf(GoodTimestamp, "Rate", "12", "16")>>,
     <<>>}

PlotPaths == {"a/run1/x.log", "a/run1/y.log", "b/run1/x.log"}

GroupPaths ==
    {"a/run1/x.log", "a/run2/x.log", "b/run1/x.log",
     "a/run12/x.log", "a/run13/x.log", "a/run1/y.log"}

\* Sequences of distinct elements of S, up to length n.
DistinctSeqs(S, n) ==
    UNION {{s \in [1 .. k -> S] : \A i, j \in 1 .. k : i # j => s[i] # s[j]} :
           k \in 0 .. n}

(***************************************************************************)
(* doc/inject_plots.py: TimeSeriesRegressionPlot, its data and its cache   *)
(* file. self.data is kept as the sequence of its items in insertion       *)
(* order; a number is a record that tells an int from a float, since str() *)
(* prints them differently.                                                *)
(***************************************************************************)

IntNum(n) == [kind |-> "int", num |-> n, scale |-> 0]
FloatNum(num, scale) == [kind |-> "float", num |-> num, scale |-> scale]

\* a == b on two numbers: an int equals the float of the same value.
NumEq(a, b) == a.num = b.num /\ a.scale = b.scale

\* str(n) for an int n >= 0
RECURSIVE StrInt(_)
StrInt(n) ==
    IF n < 10 THEN Ch(DigitChars, n + 1)
    ELSE StrInt(n \div 10) \o Ch(DigitChars, (n % 10) + 1)

RECURSIVE Pow10(_)
Pow10(k) == IF k = 0 THEN 1 ELSE 10 * Pow10(k - 1)

\* n as exactly k digits, zero-padded on the left (n < 10^k)
RECURSIVE StrDigits(_, _)
StrDigits(n, k) ==
    IF k = 0 THEN ""
    ELSE StrDigits(n \div 10, k - 1) \o Ch(DigitChars, (n % 10) + 1)

\* str(x) for a float x >= 0 equal to num / 10^scale (scale minimal), in the
\* range where Python prints no exponent (1e-4 <= x < 1e16, or 0).
StrFloat(num, scale) ==
    IF scale = 0 THEN StrInt(num) \o ".0"
    ELSE StrInt(num \div Pow10(scale)) \o "."
         \o StrDigits(num % Pow10(scale), scale)

\* str(x) in the f-string of _save_data
Str(x) == IF x.kind = "int" THEN StrInt(x.num) ELSE StrFloat(x.num, x.scale)

StrAll(xs) == [i \in 1 .. Len(xs) |-> Str(xs[i])]

\* self.data[k] = v: a new key goes last, an old key keeps its place.
DictSet(data, k, x, y) ==
    IF \E i \in 1 .. Len(data) : data[i].k = k
    THEN [i \in 1 .. Len(data) |->
            IF data[i].k = k THEN [k |-> k, x |-> x, y |-> y] ELSE data[i]]
    ELSE Append(data, [k |-> k, x |-> x, y |-> y])

\* TimeSeriesRegressionPlot._all_dates_values_from on the log files glob()
\* yields for a folder. ReFrameLogFile(fn) without a metric extracts nothing,
\* and the loop header then reads f.metrics, an attribute that neither
\* ReFrameLogFile nor File defines.
AllDatesValuesFrom(files) ==
    IF files = <<>>
    THEN [dates |-> <<>>, rel_values |-> <<>>, exc |-> NoError]
    ELSE [dates |-> <<>>, rel_values |-> <<>>,
          exc |-> Exc("AttributeError", "metrics", {"attribute"})]

\* TimeSeriesRegressionPlot._extract_data over os.listdir('../perflogs')
RECURSIVE ExtractData(_, _)
StoreSeries(r, folders, data) ==
    IF r.exc # NoError
    THEN [data |-> data, exc |-> r.exc]
    ELSE ExtractData(Tail(folders),
                     DictSet(data, Head(folders).name, r.dates, r.rel_values))

ExtractData(folders, data) ==
    IF folders = <<>>
    THEN [data |-> data, exc |-> NoError]
    ELSE StoreSeries(AllDatesValuesFrom(Head(folders).files), folders, data)

\* A _save_data that writes the y values before the x values.
SaveDataValuesFirst(data) ==
    [i \in 1 .. Len(data) |->
        data[i].k \o ":" \o JoinWith(",", StrAll(data[i].y)) \o "|"
        \o JoinWith(",", StrAll(data[i].x)) \o "\n"]

\* TimeSeriesRegressionPlot._save_data: print() ends each line with \n.
SaveData(data) ==
    [i \in 1 .. Len(data) |->
        data[i].k \o ":" \o JoinWith(",", StrAll(data[i].x)) \o "|"
        \o JoinWith(",", StrAll(data[i].y)) \o "\n"]

\* [float(x) for x in s.split(',')]: None when some float() raises.
FloatOfParsed(p) == FloatNum(Val(p).num, Val(p).scale)

FloatsOf(fields) ==
    IF \E i \in 1 .. Len(fields) : ParseFloat(fields[i]) = None
    THEN None
    ELSE Some([i \in 1 .. Len(fields) |-> FloatOfParsed(ParseFloat(fields[i]))])

Floats(s) == FloatsOf(Split(s, ","))

\* The body of the loop of load_cached_data_from_file for one line, on the
\* plot st: k, v = line.split(':'); xs, ys = v.split('|'); a series without
\* data is skipped with a warning.
StoreLoaded(k, x, y, st) ==
    IF x = None \/ y = None
    THEN [st EXCEPT !.exc = Exc("ValueError", "float", {"value"})]
    ELSE [st EXCEPT !.data = DictSet(@, k, Val(x), Val(y))]

LoadFields(k, xs, ys, st) ==
    IF Len(xs) = 0 \/ Len(ys) = 0
    THEN [st EXCEPT !.warned = @ \cup {k}]
    ELSE StoreLoaded(k, Floats(xs), Floats(ys), st)

LoadValue(k, xy, st) ==
    IF Len(xy) # 2
    THEN [st EXCEPT !.exc = Exc("ValueError", "unpack", {})]
    ELSE LoadFields(k, xy[1], xy[2], st)

LoadLine(kv, st) ==
    IF Len(kv) # 2
    THEN [st EXCEPT !.exc = Exc("ValueError", "unpack", {})]
    ELSE LoadValue(kv[1], Split(kv[2], "|"), st)

\* TimeSeriesRegressionPlot.load_cached_data_from_file on an existing file
RECURSIVE LoadCached(_, _)
LoadCached(lines, st) ==
    IF lines = <<>> \/ st.exc # NoError THEN st
    ELSE LoadCached(Tail(lines), LoadLine(Split(Head(lines), ":"), st))

\* TimeSeriesRegressionPlot.__init__ up to the call of bokeh_components:
\* pc says how far construction got; saved is what _save_data last wrote
\* from, kept to compare a later load with it.
NewSeries(saved) ==
    [pc |-> "new", data |-> <<>>, exc |-> NoError, warned |-> {},
     saved |-> saved]

Reached(st, pc) == [st EXCEPT !.pc = IF st.exc # NoError THEN "failed" ELSE pc]

Extracted2(r, st) == Reached([st EXCEPT !.data = r.data, !.exc = r.exc],
                             "extracted")

\* self.load_cached_data_from_file() when the cache file exists
TsLoad ==
    /\ ts_plot.pc = "new"
    /\ ts_cache # None
    /\ ts_plot' = Reached(LoadCached(Val(ts_cache), ts_plot), "loaded")
    /\ UNCHANGED <<ts_tree, ts_cache>>
    /\ UNCHANGED <<resolveVars, runnerVars, parseVars, plotVars>>
    /\ UNCHANGED <<htmlVars, callVars>>

\* except FileNotFoundError: self._extract_data()
TsExtract ==
    /\ ts_plot.pc = "new"
    /\ ts_cache = None
    /\ ts_plot' = Extracted2(ExtractData(ts_tree, ts_plot.data), ts_plot)
    /\ UNCHANGED <<ts_tree, ts_cache>>
    /\ UNCHANGED <<resolveVars, runnerVars, parseVars, plotVars>>
    /\ UNCHANGED <<htmlVars, callVars>>

\* self._save_data()
TsSave ==
    /\ ts_plot.pc = "extracted"
    /\ ts_cache' = Some(SaveData(ts_plot.data))
    /\ ts_plot' = [ts_plot EXCEPT !.pc = "saved", !.saved = Some(ts_plot.data)]
    /\ UNCHANGED ts_tree
    /\ UNCHANGED <<resolveVars, runnerVars, parseVars, plotVars>>
    /\ UNCHANGED <<htmlVars, callVars>>

\* A later TimeSeriesRegressionPlot(...) in the same directory
TsNew ==
    /\ ts_plot.pc = "saved"
    /\ ts_plot' = NewSeries(ts_plot.saved)
    /\ UNCHANGED <<ts_tree, ts_cache>>
    /\ UNCHANGED <<resolveVars, runnerVars, parseVars, plotVars>>
    /\ UNCHANGED <<htmlVars, callVars>>

NextSeries == TsLoad \/ TsExtract \/ TsSave \/ TsNew

NextCache == TsSave \/ TsNew \/ TsLoad

\* The cluster folders of ../perflogs (the keys of colors) and the log files
\* under one of them.
ClusterNames == {"csd3", "alaska", "tursa"}

SeriesLine(day, v) ==
    LinePerf("2020-08-" \o day \o "T16:20:21+01:00", "Rate", v, "8")

SeriesFiles(name) ==
    {<<>>,
     <<PerflogsFile(name \o "/gromacs/x.log",
                    <<SeriesLine("19", "10"), SeriesLine("20", "20"),
                      SeriesLine("21", "5")>>)>>,
     <<PerflogsFile(name \o "/gromacs/x.log", <<SeriesLine("19", "10")>>)>>}

\* What os.listdir('../perflogs') and the glob under each folder yield.
SeriesTrees ==
    UNION {{[i \in 1 .. Len(names) |-> [name |-> names[i], files |-> fs[i]]] :
              fs \in {f \in [1 .. Len(names) -> UNION {SeriesFiles(n) : n \in ClusterNames}] :
                        \A i \in 1 .. Len(names) : f[i] \in SeriesFiles(names[i])}} :
           names \in DistinctSeqs(ClusterNames, MaxFolders)}

\* Lines of a cache file found on disk: well formed, without data, and
\* malformed ones.
CacheLines ==
    {"csd3:737656,737657|1.0,0.5\n", "alaska:|\n", "csd3:737656|2.0\n",
     "tursa:737656|abc\n"}

\* self.data as _extract_data is documented to leave it: per cluster the
\* dates (ordinals) and as many relative values.
SeriesDates == {737656, 737657}
SeriesValues == {FloatNum(1, 0), FloatNum(25, 2)}

SeriesPoints ==
    UNION {{[x |-> [i \in 1 .. n |-> IntNum(xs[i])], y |-> ys] :
              xs \in [1 .. n -> SeriesDates], ys \in [1 .. n -> SeriesValues]} :
           n \in 0 .. MaxPoints}

SeriesData ==
    UNION {{[i \in 1 .. Len(names) |->
               [k |-> names[i], x |-> ps[i].x, y |-> ps[i].y]] :
              ps \in [1 .. Len(names) -> SeriesPoints]} :
           names \in DistinctSeqs({"csd3", "alaska"}, MaxSeries)}

CacheFiles ==
    UNION {[1 .. n -> CacheLines] : n \in 0 .. MaxCacheLines}

(***************************************************************************)
(* doc/inject_plots.py: block_average and blocked_array.                   *)
(***************************************************************************)

\* A quotient a / b of two ints, kept exact.
Ratio(a, b) == [num |-> a, den |-> b]

\* a == b for two quotients with positive denominators
RatioEq(p, q) == p.num * q.den = q.num * p.den

\* array[lo:hi] for 0 <= lo, 0 <= hi
Slice(array, lo, hi) == SubSeq(array, lo + 1, Min({hi, Len(array)}))

\* array[-1:]
LastSlice(array) == SubSeq(array, Max(Len(array), 1), Len(array))

RECURSIVE Sum(_)
\* sum(b)
Sum(b) == IF b = <<>> THEN 0 ELSE b[1] + Sum(Tail(b))

\* for i in range(len(array) // block_size): block_array.append(array[...])
BlockArray(array, block_size) ==
    [k \in 1 .. FloorDiv(Len(array), block_size) |->
        Slice(array, (k - 1) * block_size, block_size * k)]

\* The block size every caller in the module passes.
CallerBlockSize == 10

\* blocked_array without the end points.
BlockedArrayNoEndPoints(array, block_size) ==
    IF Len(array) = 0
    THEN [result |-> None,
          exc |-> Exc("ValueError", "blocked_array", {"array"})]
    ELSE IF block_size = 0
    THEN [result |-> None,
          exc |-> Exc("ZeroDivisionError", "blocked_array", {})]
    ELSE [result |-> Some(BlockArray(array, block_size)),
          exc |-> NoError]

\* blocked_array(array, block_size)
BlockedArray(array, block_size) ==
    IF Len(array) = 0
    THEN [result |-> None,
          exc |-> Exc("ValueError", "blocked_array", {"array"})]
    ELSE IF block_size = 0
    THEN [result |-> None,
          exc |-> Exc("ZeroDivisionError", "blocked_array", {})]
    ELSE [result |-> Some(<<Slice(array, 0, 1)>>
                          \o BlockArray(array, block_size)
                          \o <<LastSlice(array)>>),
          exc |-> NoError]

\* [sum(b) / len(b) for b in blocks]
Averages(blocks) ==
    IF \E k \in 1 .. Len(blocks) : Len(blocks[k]) = 0
    THEN [result |-> None,
          exc |-> Exc("ZeroDivisionError", "block_average", {})]
    ELSE [result |-> Some([k \in 1 .. Len(blocks) |->
                             Ratio(Sum(blocks[k]), Len(blocks[k]))]),
          exc |-> NoError]

\* What block_average makes of what blocked_array gave.
AveragesOf(r) == IF r.exc # NoError THEN r ELSE Averages(Val(r.result))

\* block_average(array, block_size)
BlockAverage(array, block_size) == AveragesOf(BlockedArray(array, block_size))

\* The call returned or raised.
Returned(fn, r) == [call EXCEPT !.fn = fn, !.result = r.result, !.exc = r.exc]

CallBlockedArray ==
    /\ call.fn = ""
    /\ call' = Returned("blocked_array", BlockedArray(call.args[1], call.args[2]))
    /\ UNCHANGED <<resolveVars, runnerVars, parseVars, plotVars, seriesVars,
                   htmlVars>>

CallBlockAverage ==
    /\ call.fn = ""
    /\ call' = Returned("block_average", BlockAverage(call.args[1], call.args[2]))
    /\ UNCHANGED <<resolveVars, runnerVars, parseVars, plotVars, seriesVars,
                   htmlVars>>

NextBlocks == CallBlockedArray \/ CallBlockAverage

RECURSIVE Ramp(_)
\* [1, 2, ..., n]
Ramp(n) == IF n = 0 THEN <<>> ELSE Append(Ramp(n - 1), n)

\* The values of the arrays handed to the two functions.
ArrayValues == {1, 2, 4}

\* Arrays: every short one, and the ramps up to [1, ..., MaxRamp].
Arrays ==
    {Ramp(n) : n \in 0 .. MaxRamp}
    \cup UNION {[1 .. n -> ArrayValues] : n \in 0 .. MaxArrayLen}

\* Block sizes: the small ones and the one every caller passes.
BlockSizes == 0 .. MaxBlockSize \cup {CallerBlockSize}

(***************************************************************************)
(* doc/inject_plots.py: HTMLFile. The file is the string of its            *)
(* characters; it is opened in text mode, so that reading translates every *)
(* line ending to "\n" and writing translates "\n" to os.linesep.          *)
(***************************************************************************)

\* What reading in text mode makes of the characters of the file.
RECURSIVE ReadText(_)
ReadText(s) ==
    IF s = "" THEN ""
    ELSE IF Ch(s, 1) # "\r" THEN Ch(s, 1) \o ReadText(SubSeq(s, 2, Len(s)))
    ELSE IF Len(s) >= 2 /\ Ch(s, 2) = "\n"
    THEN "\n" \o ReadText(SubSeq(s, 3, Len(s)))
    ELSE "\n" \o ReadText(SubSeq(s, 2, Len(s)))

\* What writing in text mode puts in the file.
RECURSIVE WriteText(_, _)
WriteText(s, linesep) ==
    IF s = "" THEN ""
    ELSE (IF Ch(s, 1) = "\n" THEN linesep ELSE Ch(s, 1))
         \o WriteText(SubSeq(s, 2, Len(s)), linesep)

\* The lines of a text, each with its "\n"; the last one may lack it.
LinesOf(parts) ==
    [k \in 1 .. Len(parts) - 1 |-> parts[k] \o "\n"]
    \o (IF parts[Len(parts)] = "" THEN <<>> ELSE <<parts[Len(parts)]>>)

\* open(self._filename, 'r').readlines()
CurrentFileLines(content) == LinesOf(Split(ReadText(content), "\n"))

\* s.endswith(suffix)
EndsWith(s, suffix) ==
    /\ Len(s) >= Len(suffix)
    /\ SubSeq(s, Len(s) - Len(suffix) + 1, Len(s)) = suffix

\* line.endswith(f'{idx}\n')
IsAnchor(line, idx) == EndsWith(line, StrInt(idx) \o "\n")

RECURSIVE Concat(_)
\* Everything printed to the file, in order.
Concat(lines) == IF lines = <<>> THEN "" ELSE lines[1] \o Concat(Tail(lines))

\* The body of the loop of replace: what is printed for one line.
Printed(line, idx, string) ==
    IF IsAnchor(line, idx) THEN string \o "\n" ELSE line

\* HTMLFile.replace, given the lines read.
ReplaceLines(lines, idx, string, linesep) ==
    [content |-> WriteText(Concat([k \in 1 .. Len(lines) |->
                                     Printed(lines[k], idx, string)]), linesep),
     exc |-> IF \E k \in 1 .. Len(lines) : IsAnchor(lines[k], idx)
             THEN NoError
             ELSE Exc("RuntimeError", "replace", {"idx", "filename"})]

\* HTMLFile.replace(idx, string)
Replace(content, idx, string, linesep) ==
    ReplaceLines(CurrentFileLines(content), idx, string, linesep)

Replaced(r) ==
    [html EXCEPT !.pc = "replaced", !.before = html.content,
                 !.content = r.content, !.exc = r.exc]

HtmlReplace ==
    /\ html.pc = "open"
    /\ html' = Replaced(Replace(html.content, Val(html.idx), html.string,
                                html.linesep))
    /\ UNCHANGED <<resolveVars, runnerVars, parseVars, plotVars, seriesVars,
                   callVars>>

\* What Plot.inject_script passes.
ScriptString == "<script>"

\* The body of the loop of add_before_end_body for the line at position i
\* (from 1): the string goes before it when the next line has the marker.
PrintedBefore(lines, i, string) ==
    (IF StrIn("</body>", lines[i + 1]) THEN string \o "\n" ELSE "")
    \o lines[i]

\* HTMLFile.add_before_end_body, given the lines read: the loop leaves out the
\* last line, which is printed after it with the line ending print() adds.
AddBeforeEndBodyLines(lines, string, linesep) ==
    IF Len(lines) = 0
    THEN [content |-> "",
          exc |-> Exc("IndexError", "add_before_end_body", {})]
    ELSE [content |->
            WriteText(Concat([i \in 1 .. Len(lines) - 1 |->
                                PrintedBefore(lines, i, string)])
                      \o lines[Len(lines)] \o "\n", linesep),
          exc |-> NoError]

\* HTMLFile.add_before_end_body(string)
AddBeforeEndBody(content, string, linesep) ==
    AddBeforeEndBodyLines(CurrentFileLines(content), string, linesep)

Added(r) ==
    [html EXCEPT !.pc = "added", !.before = html.content,
                 !.content = r.content, !.exc = r.exc]

HtmlAddBeforeEndBody ==
    /\ html.pc = "open"
    /\ html' = Added(AddBeforeEndBody(html.content, ScriptString, html.linesep))
    /\ UNCHANGED <<resolveVars, runnerVars, parseVars, plotVars, seriesVars,
                   callVars>>

\* The file as it is after a failed call is the file of the next call.
HtmlRetry ==
    /\ html.pc = "replaced"
    /\ html.exc # NoError
    /\ html' = [html EXCEPT !.pc = "open", !.exc = NoError]
    /\ UNCHANGED <<resolveVars, runnerVars, parseVars, plotVars, seriesVars,
                   callVars>>

NextHtml == HtmlReplace \/ HtmlRetry \/ HtmlAddBeforeEndBody

\* Lines a page is made of: text, placeholder lines, a line that ends in a
\* placeholder's digit, a last line without its line ending, a line with a
\* carriage return and line feed, the line that closes the body.
HtmlPieces ==
    {"a\n", "1\n", "x 1\n", "10\n", "1", "b\r\n", "</body>\n"}

RECURSIVE HtmlContents(_)
HtmlContents(n) ==
    IF n = 0 THEN {""}
    ELSE HtmlContents(n - 1)
         \cup {c \o p : c \in HtmlContents(n - 1), p \in HtmlPieces}

\* os.linesep
LineSeps == {"\n", "\r\n"}

\* What Plot.inject_div_at passes for the line.
DivString == "<div>"

(***************************************************************************)
(* doc/inject_plots.py: TimeSeriesRegressionPlot.smoothed and the sorted    *)
(* views of self.data it reads. Bin edges are compared exactly: with        *)
(* edges[i] = lo + i * (hi - lo) / n, a date d lies in bin i when           *)
(* n*lo + (i-1)*(hi-lo) < n*d <= n*lo + i*(hi-lo).                          *)
(***************************************************************************)

\* a < b on two numbers
NumLess(a, b) == a.num * Pow10(b.scale) < b.num * Pow10(a.scale)

\* (d1, v1) < (d2, v2) on tuples, as sorted() compares them
PairLess(p, q) == NumLess(p[1], q[1]) \/ (NumEq(p[1], q[1]) /\ NumLess(p[2], q[2]))

RECURSIVE InsertPair(_, _)
InsertPair(sorted, p) ==
    IF sorted = <<>> THEN <<p>>
    ELSE IF PairLess(p, Head(sorted)) THEN <<p>> \o sorted
    ELSE <<Head(sorted)>> \o InsertPair(Tail(sorted), p)

RECURSIVE SortedPairs(_)
\* sorted(zip(dates, rel_metrics))
SortedPairs(pairs) ==
    IF pairs = <<>> THEN <<>>
    ELSE InsertPair(SortedPairs(Tail(pairs)), Head(pairs))

\* The item of self.data for cluster_name
SeriesOf(data, cluster_name) ==
    data[CHOOSE i \in 1 .. Len(data) : data[i].k = cluster_name]

Zip(xs, ys) == [i \in 1 .. Min({Len(xs), Len(ys)}) |-> <<xs[i], ys[i]>>]

\* TimeSeriesRegressionPlot.dates
Dates(data, cluster_name) ==
    [i \in 1 .. Len(SeriesOf(data, cluster_name).x) |->
        SortedPairs(Zip(SeriesOf(data, cluster_name).x,
                        SeriesOf(data, cluster_name).x))[i][1]]

\* TimeSeriesRegressionPlot.relative_metrics
RelativeMetrics(data, cluster_name) ==
    [i \in 1 .. Min({Len(SeriesOf(data, cluster_name).x),
                     Len(SeriesOf(data, cluster_name).y)}) |->
        SortedPairs(Zip(SeriesOf(data, cluster_name).x,
                        SeriesOf(data, cluster_name).y))[i][2]]

\* bins[i-1] < _date <= bins[i] for bins = linspace(lo, hi, num=n+1); the
\* dates are whole numbers (scale 0).
InBin(date, i, lo, hi, n) ==
    /\ n * lo.num + (i - 1) * (hi.num - lo.num) < n * date.num
    /\ n * date.num <= n * lo.num + i * (hi.num - lo.num)

\* The bin the inner loop stops at for a date, if any.
BinOf(date, lo, hi, n) ==
    IF \E i \in 1 .. n : InBin(date, i, lo, hi, n)
    THEN Some(Min({i \in 1 .. n : InBin(date, i, lo, hi, n)}))
    ELSE None

\* dates[i-1] / rel_metrics[i-1] after the loop over the sorted points: the
\* values, in order, of the points that stopped at bin i.
RECURSIVE Binned(_, _, _, _, _, _)
Binned(points, values, i, lo, hi, n) ==
    IF points = <<>> THEN <<>>
    ELSE (IF BinOf(Head(points), lo, hi, n) = Some(i)
          THEN <<Head(values)>> ELSE <<>>)
         \o Binned(Tail(points), Tail(values), i, lo, hi, n)

\* sum(b) as a quotient with denominator 10^scale
RECURSIVE SumNums(_, _)
SumNums(b, scale) ==
    IF b = <<>> THEN 0
    ELSE Head(b).num * Pow10(scale - Head(b).scale) + SumNums(Tail(b), scale)

MaxScale(b) == CHOOSE s \in {b[i].scale : i \in 1 .. Len(b)} :
                   \A i \in 1 .. Len(b) : b[i].scale <= s

\* sum(b) / len(b)
Mean(b) == Ratio(SumNums(b, MaxScale(b)), Len(b) * Pow10(MaxScale(b)))

\* [sum(b) / len(b) for b in bins if len(b) > 0]
RECURSIVE MeansOfNonEmpty(_)
MeansOfNonEmpty(bins) ==
    IF bins = <<>> THEN <<>>
    ELSE (IF Len(Head(bins)) > 0 THEN <<Mean(Head(bins))>> ELSE <<>>)
         \o MeansOfNonEmpty(Tail(bins))

\* smoothed from the bins on: interp1d raises ValueError when it is given no
\* point; what is kept of the result is what the spline is fitted through.
Splined(dates, rel_metrics) ==
    IF \A i \in 1 .. Len(dates) : Len(dates[i]) = 0
    THEN [result |-> None, exc |-> Exc("ValueError", "interp1d", {"x", "y"})]
    ELSE [result |-> Some([dates |-> dates, rel_metrics |-> rel_metrics,
                           avg_dates |-> MeansOfNonEmpty(dates),
                           avg_rel_metrics |-> MeansOfNonEmpty(rel_metrics)]),
          exc |-> NoError]

\* smoothed once all_dates and all_rel_metrics are known
SmoothedOver(all_dates, all_rel_metrics, n) ==
    IF Len(all_dates) = 0
    THEN [result |-> None, exc |-> Exc("ValueError", "min", {"all_dates"})]
    ELSE Splined([i \in 1 .. n |->
                    Binned(all_dates, all_dates, i, all_dates[1],
                           all_dates[Len(all_dates)], n)],
                 [i \in 1 .. n |->
                    Binned(all_dates, all_rel_metrics, i, all_dates[1],
                           all_dates[Len(all_dates)], n)])

\* TimeSeriesRegressionPlot.smoothed(cluster_name, n)
Smoothed(data, cluster_name, n) ==
    SmoothedOver(Dates(data, cluster_name), RelativeMetrics(data, cluster_name), n)

SmoothedCalled(r) ==
    [call EXCEPT !.fn = "smoothed", !.result = r.result, !.exc = r.exc]

CallSmoothed ==
    /\ call.fn = ""
    /\ ts_plot.pc = "loaded"
    /\ call' = SmoothedCalled(Smoothed(ts_plot.data, call.args[1], call.args[2]))
    /\ UNCHANGED <<resolveVars, runnerVars, parseVars, plotVars, seriesVars,
                   htmlVars>>

\* bokeh_components goes on to the next cluster: smoothed is called again.
CallSmoothedAgain ==
    /\ call.fn = "smoothed"
    /\ call.exc = NoError
    /\ call' = [call EXCEPT !.fn = "", !.result = None]
    /\ UNCHANGED <<resolveVars, runnerVars, parseVars, plotVars, seriesVars,
                   htmlVars>>

NextSmooth == CallSmoothed \/ CallSmoothedAgain

\* The number of bins smoothed uses when none is given.
DefaultBins == 12

\* self.data with one cluster, as load_cached_data_from_file leaves it: the
\* ordinals of the dates as floats, in the order of the file.
SmoothDates == {737656, 737657, 737659}

SmoothPoints ==
    UNION {{[x |-> [i \in 1 .. k |-> FloatNum(xs[i], 0)], y |-> ys] :
              xs \in [1 .. k -> SmoothDates], ys \in [1 .. k -> SeriesValues]} :
           k \in 0 .. MaxPoints}

SmoothData == {<<[k |-> "csd3", x |-> p.x, y |-> p.y]>> : p \in SmoothPoints}

(***************************************************************************)
(* doc/inject_plots.py: inject_all. call holds the loop of inject_all (the  *)
(* plot indices in dictionary order and the position reached), html the     *)
(* target file; every plot has been constructed, with a script and a div    *)
(* of its own.                                                              *)
(***************************************************************************)

\* plot._script and plot._div of the plot registered under idx
PlotScript(idx) == "<script " \o StrInt(idx) \o ">"
PlotDiv(idx) == "<div " \o StrInt(idx) \o ">"

\* The plot index the loop is at.
PlotIdx == call.args[Val(call.result)]

InLoop ==
    /\ call.fn = "inject_all"
    /\ call.exc = NoError
    /\ Val(call.result) <= Len(call.args)

Scripted(r) ==
    [html EXCEPT !.pc = IF r.exc = NoError THEN "scripted" ELSE "failed",
                 !.before = html.content, !.content = r.content,
                 !.idx = Some(PlotIdx), !.exc = r.exc]

DivPlaced(r) ==
    [html EXCEPT !.pc = IF r.exc = NoError THEN "target" ELSE "failed",
                 !.before = html.content, !.content = r.content,
                 !.exc = r.exc]

\* plot.target = HTMLFile(template_filename); plot.inject_script()
InjectScript ==
    /\ InLoop
    /\ html.pc = "target"
    /\ html' = Scripted(AddBeforeEndBody(html.content, PlotScript(PlotIdx),
                                         html.linesep))
    /\ call' = [call EXCEPT !.exc = html'.exc]
    /\ UNCHANGED <<resolveVars, runnerVars, parseVars, plotVars, seriesVars>>

\* plot.inject_div_at(plot_idx), and on to the next plot
InjectDivAt ==
    /\ InLoop
    /\ html.pc = "scripted"
    /\ html' = DivPlaced(Replace(html.content, PlotIdx, PlotDiv(PlotIdx),
                                 html.linesep))
    /\ call' = [call EXCEPT !.exc = html'.exc,
                            !.result = IF html'.exc = NoError
                                       THEN Some(Val(@) + 1) ELSE @]
    /\ UNCHANGED <<resolveVars, runnerVars, parseVars, plotVars, seriesVars>>

NextInject == InjectScript \/ InjectDivAt

(***************************************************************************)
(* Specifications. Each one exercises one part of the repository and       *)
(* leaves the variables of the other parts at their idle values.           *)
(***************************************************************************)
IdleRpc == [phase |-> "off", i |-> 0]
IdlePlot == NewPlot("off", "", <<>>, <<>>, <<>>, NoError)
IdleSeries ==
    [pc |-> "off", data |-> <<>>, exc |-> NoError, warned |-> {},
     saved |-> None]
IdleHtml ==
    [pc |-> "off", content |-> "", before |-> "", idx |-> None,
     string |-> DivString, linesep |-> "\n", exc |-> NoError]
IdleCall == [fn |-> "", args |-> <<>>, result |-> None, exc |-> NoError]

InitResolve ==
    /\ \E v \in Variants, c \in 1 .. MaxCores, th \in 1 .. MaxThreads,
          p \in Processors :
        test = NewTest(v, c, th, p)
    /\ omp_env = 1
    /\ benchmarks = <<>>
    /\ cache = NoFiles
    /\ launches = <<>>
    /\ rpc = IdleRpc
    /\ bench = None
    /\ bench_in = None
    /\ bench_exc = NoError
    /\ perflogs = <<>>
    /\ plot = IdlePlot
    /\ file_groups = None
    /\ ts_tree = <<>>
    /\ ts_cache = None
    /\ ts_plot = IdleSeries
    /\ html = IdleHtml
    /\ call = IdleCall

SpecResolve == InitResolve /\ [][NextResolve]_vars

InitRunner ==
    /\ test = TestIdle
    /\ omp_env \in 1 .. MaxRunThreads
    /\ \E start \in 1 .. MaxRunCores, step \in 1 .. MaxRunCores,
          len \in 0 .. MaxBench :
        /\ start + (len - 1) * step <= MaxRunCores
        /\ benchmarks = NewBenchmarks(GromacsSpec, start, step, len)
    /\ cache = NoFiles
    /\ launches = <<>>
    /\ rpc = [phase |-> "idle", i |-> 0]
    /\ bench = None
    /\ bench_in = None
    /\ bench_exc = NoError
    /\ perflogs = <<>>
    /\ plot = IdlePlot
    /\ file_groups = None
    /\ ts_tree = <<>>
    /\ ts_cache = None
    /\ ts_plot = IdleSeries
    /\ html = IdleHtml
    /\ call = IdleCall

SpecRunner == InitRunner /\ [][NextRunner]_vars

InitParse ==
    /\ test = TestIdle
    /\ omp_env = 1
    /\ benchmarks = <<>>
    /\ cache = NoFiles
    /\ launches = <<>>
    /\ rpc = IdleRpc
    /\ bench = None
    /\ bench_in = None
    /\ bench_exc = NoError
    /\ perflogs = <<>>
    /\ plot = IdlePlot
    /\ file_groups = None
    /\ ts_tree = <<>>
    /\ ts_cache = None
    /\ ts_plot = IdleSeries
    /\ html = IdleHtml
    /\ call = IdleCall

SpecParse == InitParse /\ [][NextParse]_vars

PlotMetrics == {"Rate", "*"}

InitPlot ==
    /\ test = TestIdle
    /\ omp_env = 1
    /\ benchmarks = <<>>
    /\ cache = NoFiles
    /\ launches = <<>>
    /\ rpc = IdleRpc
    /\ bench = None
    /\ bench_in = None
    /\ bench_exc = NoError
    /\ \E paths \in DistinctSeqs(PlotPaths, MaxPlotFiles) :
        \E contents \in [1 .. Len(paths) -> FileContents] :
            perflogs = [k \in 1 .. Len(paths) |->
                          PerflogsFile(paths[k], contents[k])]
    /\ \E metric \in PlotMetrics :
        plot = NewPlot("requested", metric, <<>>, <<>>, <<>>, NoError)
    /\ file_groups = None
    /\ ts_tree = <<>>
    /\ ts_cache = None
    /\ ts_plot = IdleSeries
    /\ html = IdleHtml
    /\ call = IdleCall

SpecPlot == InitPlot /\ [][NextPlot]_vars

InitGroup ==
    /\ test = TestIdle
    /\ omp_env = 1
    /\ benchmarks = <<>>
    /\ cache = NoFiles
    /\ launches = <<>>
    /\ rpc = IdleRpc
    /\ bench = None
    /\ bench_in = None
    /\ bench_exc = NoError
    /\ \E paths \in DistinctSeqs(GroupPaths, MaxFiles) :
        perflogs = [k \in 1 .. Len(paths) |->
                      PerflogsFile(paths[k],
                                   <<LinePerf(GoodTimestamp, "Rate", "12", "8")>>)]
    /\ plot = NewPlot("requested", "Rate", <<>>, <<>>, <<>>, NoError)
    /\ file_groups = None
    /\ ts_tree = <<>>
    /\ ts_cache = None
    /\ ts_plot = IdleSeries
    /\ html = IdleHtml
    /\ call = IdleCall

SpecGroup == InitGroup /\ [][NextPlot]_vars

InitSeries ==
    /\ test = TestIdle
    /\ omp_env = 1
    /\ benchmarks = <<>>
    /\ cache = NoFiles
    /\ launches = <<>>
    /\ rpc = IdleRpc
    /\ bench = None
    /\ bench_in = None
    /\ bench_exc = NoError
    /\ perflogs = <<>>
    /\ plot = IdlePlot
    /\ file_groups = None
    /\ ts_tree \in SeriesTrees
    /\ ts_cache \in {None} \cup {Some(c) : c \in CacheFiles}
    /\ ts_plot = NewSeries(None)
    /\ html = IdleHtml
    /\ call = IdleCall

SpecSeries == InitSeries /\ [][NextSeries]_vars

InitCache ==
    /\ test = TestIdle
    /\ omp_env = 1
    /\ benchmarks = <<>>
    /\ cache = NoFiles
    /\ launches = <<>>
    /\ rpc = IdleRpc
    /\ bench = None
    /\ bench_in = None
    /\ bench_exc = NoError
    /\ perflogs = <<>>
    /\ plot = IdlePlot
    /\ file_groups = None
    /\ ts_tree = <<>>
    /\ ts_cache = None
    /\ \E data \in SeriesData :
         ts_plot = [NewSeries(None) EXCEPT !.pc = "extracted", !.data = data]
    /\ html = IdleHtml
    /\ call = IdleCall

SpecCache == InitCache /\ [][NextCache]_vars

InitBlocks ==
    /\ test = TestIdle
    /\ omp_env = 1
    /\ benchmarks = <<>>
    /\ cache = NoFiles
    /\ launches = <<>>
    /\ rpc = IdleRpc
    /\ bench = None
    /\ bench_in = None
    /\ bench_exc = NoError
    /\ perflogs = <<>>
    /\ plot = IdlePlot
    /\ file_groups = None
    /\ ts_tree = <<>>
    /\ ts_cache = None
    /\ ts_plot = IdleSeries
    /\ html = IdleHtml
    /\ \E array \in Arrays, block_size \in BlockSizes :
         call = [IdleCall EXCEPT !.args = <<array, block_size>>]

SpecBlocks == InitBlocks /\ [][NextBlocks]_vars

InitHtml ==
    /\ test = TestIdle
    /\ omp_env = 1
    /\ benchmarks = <<>>
    /\ cache = NoFiles
    /\ launches = <<>>
    /\ rpc = IdleRpc
    /\ bench = None
    /\ bench_in = None
    /\ bench_exc = NoError
    /\ perflogs = <<>>
    /\ plot = IdlePlot
    /\ file_groups = None
    /\ ts_tree = <<>>
    /\ ts_cache = None
    /\ ts_plot = IdleSeries
    /\ \E content \in HtmlContents(MaxHtmlLines), idx \in 0 .. MaxIdx,
          linesep \in LineSeps :
         html = [IdleHtml EXCEPT !.pc = "open", !.content = content,
                                 !.idx = Some(idx), !.linesep = linesep]
    /\ call = IdleCall

SpecHtml == InitHtml /\ [][NextHtml]_vars

InitSmooth ==
    /\ test = TestIdle
    /\ omp_env = 1
    /\ benchmarks = <<>>
    /\ cache = NoFiles
    /\ launches = <<>>
    /\ rpc = IdleRpc
    /\ bench = None
    /\ bench_in = None
    /\ bench_exc = NoError
    /\ perflogs = <<>>
    /\ plot = IdlePlot
    /\ file_groups = None
    /\ ts_tree = <<>>
    /\ ts_cache = None
    /\ \E data \in SmoothData :
         ts_plot = [NewSeries(None) EXCEPT !.pc = "loaded", !.data = data]
    /\ html = IdleHtml
    /\ \E n \in 1 .. MaxBins \cup {DefaultBins} :
         call = [IdleCall EXCEPT !.args = <<"csd3", n>>]

SpecSmooth == InitSmooth /\ [][NextSmooth]_vars

\* Log files of as many clusters, one file each: every file is a group of
\* its own at threshold 1.
ClusterPath(k) == "c" \o StrInt(k) \o "/run/x.log"

ClusterContents ==
    {<<LinePerf(GoodTimestamp, "Rate", "12", "8")>>,
     <<LinePerf(GoodTimestamp, "Rate", "12", "16")>>}

InitClusters ==
    /\ test = TestIdle
    /\ omp_env = 1
    /\ benchmarks = <<>>
    /\ cache = NoFiles
    /\ launches = <<>>
    /\ rpc = IdleRpc
    /\ bench = None
    /\ bench_in = None
    /\ bench_exc = NoError
    /\ \E n \in 0 .. MaxClusters :
        \E contents \in [1 .. n -> ClusterContents] :
            perflogs = [k \in 1 .. n |->
                          PerflogsFile(ClusterPath(k), contents[k])]
    /\ plot = NewPlot("requested", "Rate", <<>>, <<>>, <<>>, NoError)
    /\ file_groups = None
    /\ ts_tree = <<>>
    /\ ts_cache = None
    /\ ts_plot = IdleSeries
    /\ html = IdleHtml
    /\ call = IdleCall

SpecClusters == InitClusters /\ [][NextPlot]_vars

InitInject ==
    /\ test = TestIdle
    /\ omp_env = 1
    /\ benchmarks = <<>>
    /\ cache = NoFiles
    /\ launches = <<>>
    /\ rpc = IdleRpc
    /\ bench = None
    /\ bench_in = None
    /\ bench_exc = NoError
    /\ perflogs = <<>>
    /\ plot = IdlePlot
    /\ file_groups = None
    /\ ts_tree = <<>>
    /\ ts_cache = None
    /\ ts_plot = IdleSeries
    /\ \E template \in HtmlContents(MaxHtmlLines), linesep \in LineSeps :
         html = [IdleHtml EXCEPT !.pc = "target", !.content = template,
                                 !.linesep = linesep]
    /\ \E idxs \in DistinctSeqs(0 .. MaxIdx, MaxPlots) :
         call = [fn |-> "inject_all", args |-> idxs, result |-> Some(1),
                 exc |-> NoError]

SpecInject == InitInject /\ [][NextInject]_vars

(***************************************************************************)
(* Claims about apps/gromacs (checked under SpecResolve).                  *)
(***************************************************************************)

SetupReturned == test.stage = "setup_done"
CoreCountReported == test.processor.has_attr /\ test.processor.num_cpus # None

\* C1: for every total core count C >= 1, thread count T with 1 <= T <= C and
\* reported per-node core count >= 1, set_attributes_after_setup returns with
\* the task count equal to C // T (the largest n >= 1 with n * T <= C), and
\* tasks-per-node times nodes is at least the task count.
C1_TasksAndLayoutCoverTasks ==
    (/\ test.stage # "created"
     /\ test.requested_threads <= test.num_total_cores
     /\ CoreCountReported)
    => /\ SetupReturned
       /\ LET tasks == Val(test.num_tasks)
              total == test.num_total_cores
              threads == test.requested_threads
          IN /\ tasks >= 1
             /\ tasks * threads <= total
             /\ total < (tasks + 1) * threads
             /\ Val(test.num_tasks_per_node) * Val(test.num_nodes) >= tasks

\* C1 witness: a returned setup with T <= C whose tasks spread over several
\* nodes without dividing evenly.
C1_Witness ==
    /\ SetupReturned
    /\ test.requested_threads <= test.num_total_cores
    /\ CoreCountReported
    /\ Val(test.num_nodes) >= 2
    /\ Val(test.num_tasks_per_node) * Val(test.num_nodes) > Val(test.num_tasks)

\* C2: after set_attributes_after_setup the thread count used
\* (num_cpus_per_task, exported as OMP_NUM_THREADS) never exceeds the
\* requested total core count C: it is T when T <= C, and it is clamped to C
\* when C < T, where the task count is 1.
C2_ThreadsNeverExceedCores ==
    SetupReturned
    => LET total == test.num_total_cores
           threads == test.requested_threads
           used == Val(test.num_cpus_per_task)
       IN /\ used <= total
          /\ test.OMP_NUM_THREADS = Some(used)
          /\ (threads <= total => used = threads)
          /\ (total < threads => used = total /\ test.num_tasks = Some(1))
          /\ Val(test.num_tasks) >= 1

\* C2 witness: a returned setup that had fewer cores than threads.
C2_Witness ==
    /\ SetupReturned
    /\ test.num_total_cores < test.requested_threads
    /\ test.warned_threads

\* C3: in both variants, when the environment reports no per-node core count
\* (attribute missing, or num_cpus None) set_attributes_after_setup does not
\* raise: it warns, resolves one node and tasks-per-node equal to the tasks.
C3_NoCoreCountFallsBackToOneNode ==
    (test.stage # "created" /\ ~CoreCountReported)
    => /\ SetupReturned
       /\ test.raised = NoExc
       /\ test.warned_nodes
       /\ test.num_nodes = Some(1)
       /\ test.num_tasks_per_node = test.num_tasks

\* C23: the resolved layout never oversubscribes a node: for every C >= 1 and
\* every T with 1 <= T <= cpus_per_node, after set_attributes_after_setup the
\* tasks per node times the threads per task (num_cpus_per_task) is at most
\* the reported per-node core count.
C23_NodeNotOversubscribed ==
    (/\ SetupReturned
     /\ CoreCountReported
     /\ test.requested_threads <= Val(test.processor.num_cpus))
    => Val(test.num_tasks_per_node) * Val(test.num_cpus_per_task)
          <= Val(test.processor.num_cpus)

(***************************************************************************)
(* Claims about the standalone runner (checked under SpecRunner).          *)
(***************************************************************************)

\* C4: for every standalone run (any n_cores >= 1, any OMP_NUM_THREADS >= 1)
\* the MPI task count GROMACSBenchmark.run passes to the launcher is >= 1.
C4_LaunchedTaskCountAtLeastOne ==
    \A k \in 1 .. Len(launches) : launches[k].np >= 1

\* The benchmark the loop of run() is at.
AtBenchmark == rpc.phase = "loop" /\ rpc.i <= Len(benchmarks)
HasCacheFile(b) == PickleFilename(b) \in DOMAIN cache

\* The pass of the loop loads the benchmark from its file, launches nothing and
\* writes nothing.
LoadedNotRun ==
    /\ launches' = launches
    /\ cache' = cache
    /\ benchmarks'[rpc.i] = cache[PickleFilename(benchmarks[rpc.i])]

\* The pass of the loop runs the benchmark (one launch at most, for its own
\* core count) and then saves it: no other file is written, and a file
\* written holds the benchmark as the run left it.
RunThenSaved ==
    /\ \/ launches' = launches /\ benchmarks'[rpc.i] = benchmarks[rpc.i]
       \/ /\ Len(launches') = Len(launches) + 1
          /\ launches'[Len(launches')].n_cores = benchmarks[rpc.i].n_cores
          /\ benchmarks'[rpc.i].stderr # None
    /\ DOMAIN cache' \subseteq DOMAIN cache \cup {PickleFilename(benchmarks[rpc.i])}
    /\ PickleFilename(benchmarks[rpc.i]) \in DOMAIN cache'
       => cache'[PickleFilename(benchmarks[rpc.i])] = benchmarks'[rpc.i]

\* Outside the loop of run() nothing is launched; a file once written stays.
OnlyTheLoopLaunches ==
    /\ ~AtBenchmark => Len(launches') <= Len(launches)
    /\ \A f \in DOMAIN cache : f \in DOMAIN cache' /\ cache'[f] = cache[f]

\* C14: in GROMACSBenchmarks.run a benchmark whose cache file exists is loaded
\* from that file and not launched; a benchmark without one is run and then
\* saved. A cache file is never removed, so a benchmark saved once is never
\* executed again by any later run(), and one that was not saved is run again.
C14_CachedLoadedOthersRun ==
    [][/\ OnlyTheLoopLaunches
       /\ AtBenchmark
          => IF HasCacheFile(benchmarks[rpc.i]) THEN LoadedNotRun
             ELSE RunThenSaved]_vars

\* A later run() went through the list: the first benchmark had been saved and
\* was not launched, the second had not been saved and was launched again.
C14_Witness ==
    /\ Len(benchmarks) = 2
    /\ rpc.phase = "loop"
    /\ rpc.i = 3
    /\ HasCacheFile(benchmarks[1])
    /\ ~HasCacheFile(benchmarks[2])
    /\ Len(launches) = 1
    /\ launches[1].n_cores = benchmarks[2].n_cores

\* The captured stderr has a performance line: 'Performance:' and two more
\* fields.
HasPerformanceLine(b) ==
    /\ b.stderr # None
    /\ \E k \in 1 .. Len(Val(b.stderr)) :
         /\ StrIn("Performance:", Val(b.stderr)[k])
         /\ Len(SplitWs(Val(b.stderr)[k])) = 3

\* The benchmarks run() is done with in the current invocation.
Processed ==
    IF rpc.phase = "loop" THEN 1 .. (rpc.i - 1)
    ELSE IF rpc.phase = "done" THEN 1 .. Len(benchmarks)
    ELSE {}

MissingResultRecovered ==
    /\ rpc.phase = "raised" => HasPerformanceLine(benchmarks[rpc.i])
    /\ \A k \in 1 .. Len(benchmarks) :
         ~HasPerformanceLine(benchmarks[k])
         => /\ Performance(benchmarks[k]) = [value |-> None, raised |-> NoExc]
            /\ ~HasCacheFile(benchmarks[k])
    /\ \A f \in DOMAIN cache :
         /\ HasPerformanceLine(cache[f])
         /\ Performance(cache[f]).value # None

\* The pass of the loop for a benchmark that ends without a result goes on to
\* the next benchmark.
MissingResultGoesOn ==
    (/\ AtBenchmark
     /\ ~HasPerformanceLine(benchmarks'[rpc.i]))
    => rpc' = [phase |-> "loop", i |-> rpc.i + 1]

\* C15: a benchmark whose stderr has no performance line, or is None, has
\* performance None without an exception, and save() writes no cache file for
\* it; every cache file belongs to a run whose performance is not None; run()
\* goes on to the next benchmark after a missing result.
C15_MissingResultIsNoneAndUnsaved ==
    /\ []MissingResultRecovered
    /\ [][MissingResultGoesOn]_vars

\* run() got past a benchmark that ran without a performance line and saved
\* the next one.
C15_Witness ==
    /\ Len(benchmarks) = 2
    /\ Processed = {1, 2}
    /\ benchmarks[1].stderr # None
    /\ ~HasPerformanceLine(benchmarks[1])
    /\ ~HasCacheFile(benchmarks[1])
    /\ HasCacheFile(benchmarks[2])

DeviationReported == call.fn = "deviation_from_linear"

\* No performance value was passed: the list is empty or holds only None.
PerformancesAbsent == \A k \in 1 .. Len(call.args[2]) : call.args[2][k] = None

\* C16: when the performance values passed to deviation_from_linear are absent
\* (the list is empty, or every performance is None), the function returns the
\* sentinel -1 and neither raises nor attempts the regression.
C16_AbsentPerformancesGiveSentinel ==
    (DeviationReported /\ PerformancesAbsent)
    => /\ call.exc = NoError
       /\ call.result = Some(-1)

\* The install paths the package-location command can return: its first
\* line of output, when there is one and it is not an error.
InstallPaths ==
    {out[1] : out \in {o \in LocationOutputs :
                         o[1] # "" /\ ~StrIn("error", o[1])}}

\* C24: GROMACSBenchmark.run launches the MPI benchmark only when the
\* package-location command returned an install path: with no output or an
\* error, gmx_path is None and run() returns without launching anything.
C24_LaunchOnlyWithInstallPath ==
    \A k \in 1 .. Len(launches) :
        \E path \in InstallPaths :
            launches[k].gmx_path = path \o "/bin/gmx_mpi"

(***************************************************************************)
(* Claims about Benchmark.set_from (checked under SpecParse).              *)
(***************************************************************************)

SetFromCalled == bench_in # None /\ Val(bench_in).line # ""

\* C5: parsing the literal line
\* 2020-08-19T16:20:21+01:00|x|IMB_Pingpong|max_bandwidth=3041.25|Mbytes/sec|x|x
\* with Benchmark(metric='max_bandwidth').set_from succeeds and yields value
\* 3041.25 and units 'Mbytes/sec'.
C5_LiteralLineParses ==
    (/\ SetFromCalled
     /\ Val(bench_in).line = LiteralLine
     /\ Val(bench_in).metric = "max_bandwidth")
    => /\ bench_exc = NoError
       /\ Val(bench).value = Some([num |-> 304125, scale |-> 2])
       /\ Val(bench).units = Some("Mbytes/sec")

\* The positions of the field separators of a line, and the text found at
\* the metric position: what follows the fourth separator up to the next
\* separator or '='.
BarPositions(line) == {k \in 1 .. Len(line) : Ch(line, k) = "|"}

HasMetricField(line) == Cardinality(BarPositions(line)) >= 4

FoundMetric(line) ==
    LET bars == BarPositions(line)
        p == CHOOSE q \in bars : Cardinality({r \in bars : r < q}) = 3
        stops == {k \in (p + 1) .. Len(line) : Ch(line, k) \in {"|", "="}}
        e == IF stops = {} THEN Len(line) + 1 ELSE Min(stops)
    IN SubSeq(line, p + 1, e - 1)

\* C6: set_from raises a descriptive RuntimeError when the line has no field
\* at the metric position, or when a requested metric other than '*' differs
\* from the name found there; with '*' any name found there is accepted and
\* becomes the benchmark's metric.
C6_MetricPositionChecked ==
    SetFromCalled
    => LET line == Val(bench_in).line
           requested == Val(bench_in).metric
       IN /\ ~HasMetricField(line)
             => /\ bench_exc.type = "RuntimeError"
                /\ "line" \in bench_exc.mentions
          /\ (HasMetricField(line) /\ requested # "*"
                /\ FoundMetric(line) # requested)
             => /\ bench_exc.type = "RuntimeError"
                /\ {"metric", "line"} \subseteq bench_exc.mentions
          /\ (HasMetricField(line) /\ requested = "*")
             => /\ bench_exc.type # "RuntimeError"
                /\ Val(bench).metric = FoundMetric(line)

\* C6 witness: a '*' benchmark took the metric name Rate from the line.
C6_Witness ==
    /\ SetFromCalled
    /\ Val(bench_in).metric = "*"
    /\ HasMetricField(Val(bench_in).line)
    /\ Val(bench).metric = "Rate"
    /\ bench_exc = NoError

(***************************************************************************)
(* Claims about plot construction (checked under SpecPlot) and about       *)
(* StrongScalingPlot._log_file_groups (checked under SpecGroup).           *)
(***************************************************************************)

ConstructionAttempted == plot.status \in {"constructed", "failed"}

\* The field at the metric position: what follows the fourth separator up to
\* the next one; and the text of the value in it, what follows its first '='.
MetricField(line) ==
    LET bars == BarPositions(line)
        p == CHOOSE q \in bars : Cardinality({r \in bars : r < q}) = 3
        stops == {k \in (p + 1) .. Len(line) : Ch(line, k) = "|"}
        e == IF stops = {} THEN Len(line) + 1 ELSE Min(stops)
    IN SubSeq(line, p + 1, e - 1)

AfterEquals(field) ==
    SubSeq(field, Min({k \in 1 .. Len(field) : Ch(field, k) = "="}) + 1,
           Len(field))

FoundValue(line) == AfterEquals(MetricField(line))

\* The first line read carries the plotted metric with a value that is no
\* number.
FirstValueNonNumeric ==
    /\ ConstructionAttempted
    /\ Len(perflogs) >= 1
    /\ perflogs[1].lines # <<>>
    /\ HasMetricField(perflogs[1].lines[1])
    /\ plot.metric \in {"*", FoundMetric(perflogs[1].lines[1])}
    /\ StrIn("=", MetricField(perflogs[1].lines[1]))
    /\ ParseFloat(FoundValue(perflogs[1].lines[1])) = None

\* C7: when a log line's metric value is non-numeric, extracting the log file
\* fails with a failure that names the offending file, not with a bare
\* conversion error.
C7_NonNumericValueNamesFile ==
    FirstValueNonNumeric
    => /\ plot.status = "failed"
       /\ "file" \in plot.exc.mentions

Grouped == file_groups # None

\* The number of characters by which two strings differ: the positions at
\* which their characters differ, and those only one of them has.
CharsDiffering(a, b) ==
    Cardinality({k \in 1 .. Max(Len(a), Len(b)) :
                   \/ k > Len(a)
                   \/ k > Len(b)
                   \/ Ch(a, k) # Ch(b, k)})

Qualifies(f, first, threshold) ==
    CharsDiffering(Directory(f), Directory(first)) < threshold

\* The position of a log file in the plot's list of log files.
InputIndex(f) == CHOOSE i \in 1 .. Len(plot.log_files) : plot.log_files[i] = f

\* Every input file is in exactly one group, and groups and their members
\* are in input order.
PartitionInInputOrder(G) ==
    /\ \A i \in 1 .. Len(plot.log_files) :
         Cardinality({g \in 1 .. Len(G) :
                        \E k \in 1 .. Len(G[g]) :
                            G[g][k] = plot.log_files[i]}) = 1
    /\ \A g \in 1 .. Len(G) :
         /\ Len(G[g]) >= 1
         /\ \A k \in 1 .. Len(G[g]) :
              \E i \in 1 .. Len(plot.log_files) : plot.log_files[i] = G[g][k]
         /\ \A k \in 2 .. Len(G[g]) :
              InputIndex(G[g][k - 1]) < InputIndex(G[g][k])
    /\ \A g \in 2 .. Len(G) : InputIndex(G[g - 1][1]) < InputIndex(G[g][1])

\* A file joined the earliest-created group that qualifies, and started a
\* new group only when none did.
FirstFit(G, threshold) ==
    \A g \in 1 .. Len(G) : \A k \in 1 .. Len(G[g]) :
        /\ \A h \in 1 .. (g - 1) : ~Qualifies(G[g][k], G[h][1], threshold)
        /\ k > 1 => Qualifies(G[g][k], G[g][1], threshold)

\* C8: _log_file_groups is a first-fit partition of the log files: every
\* input file is in exactly one group, files are taken in input order, a
\* file joins the earliest-created group whose first member's directory
\* string differs from its own by fewer than the threshold number of
\* characters, and starts a new group only when no existing group qualifies.
C8_FirstFitPartition ==
    Grouped
    => /\ PartitionInInputOrder(Val(file_groups).groups)
       /\ FirstFit(Val(file_groups).groups, Val(file_groups).threshold)

ThreePaths ==
    <<"../perflogs/a/run1/x.log", "../perflogs/a/run2/x.log",
      "../perflogs/b/run1/x.log">>

ThreePathsGrouped ==
    /\ Grouped
    /\ Val(file_groups).threshold = 1
    /\ [k \in 1 .. Len(perflogs) |-> perflogs[k].filename] = ThreePaths

\* C9 as stated: the paths a/run1/x.log, a/run2/x.log and b/run1/x.log, in
\* that order, grouped with threshold 1 yield exactly two groups.
C9_ThreePathsTwoGroups ==
    ThreePathsGrouped => Len(Val(file_groups).groups) = 2

\* C9 amended: the paths a/run1/x.log, a/run2/x.log and b/run1/x.log under
\* ../perflogs, in that order, grouped with threshold 1 yield exactly three
\* groups, one per file: the directory strings arun1, arun2 and brun1 differ
\* pairwise in at least one character, and fewer than one is required.
C9_ThreePathsThreeGroups ==
    ThreePathsGrouped
    => /\ Len(Val(file_groups).groups) = 3
       /\ \A g \in 1 .. 3 :
            /\ Len(Val(file_groups).groups[g]) = 1
            /\ Val(file_groups).groups[g][1].filename = ThreePaths[g]

\* C9 witness: the three paths have been grouped with threshold 1.
C9_Witness == ThreePathsGrouped /\ Len(Val(file_groups).groups) >= 1

\* The groups as a partition of the file names.
PartitionOf(G) ==
    {{G[g][k].filename : k \in 1 .. Len(G[g])} : g \in 1 .. Len(G)}

RunPaths ==
    <<"../perflogs/a/run12/x.log", "../perflogs/a/run13/x.log",
      "../perflogs/a/run1/x.log">>

RunPathsGrouped ==
    /\ Grouped
    /\ Val(file_groups).threshold = 1
    /\ [k \in 1 .. Len(plot.log_files) |-> plot.log_files[k].filename] = RunPaths

\* The same three files with the last one moved to the front.
LastFirst(files) == <<files[3], files[1], files[2]>>

\* C19: the grouping depends on the order of the log files. At threshold 1
\* the files under a/run12, a/run13, a/run1, in this order, fall into the
\* groups {a/run12, a/run1} and {a/run13}; the same files with a/run1 first
\* fall into one group.
C19_GroupingDependsOnOrder ==
    RunPathsGrouped
    => /\ PartitionOf(Val(file_groups).groups) =
            {{RunPaths[1], RunPaths[3]}, {RunPaths[2]}}
       /\ PartitionOf(LogFileGroups(LastFirst(plot.log_files), 1).groups) =
            {{RunPaths[1], RunPaths[2], RunPaths[3]}}

\* The three files were grouped in the order a/run12, a/run13, a/run1.
C19_Witness == RunPathsGrouped /\ Len(Val(file_groups).groups) = 2

\* C20: at the default threshold of 1, two log files are in the same group
\* only if their directory strings are identical, in length too.
C20_SameGroupSameDirectory ==
    (Grouped /\ Val(file_groups).threshold = 1)
    => \A g \in 1 .. Len(Val(file_groups).groups) :
         \A k, l \in 1 .. Len(Val(file_groups).groups[g]) :
            Directory(Val(file_groups).groups[g][k]) =
               Directory(Val(file_groups).groups[g][l])

AllCarry(log_files, metric) ==
    \A i \in 1 .. Len(log_files) :
        \A k \in 1 .. Len(log_files[i].benchmarks) :
            log_files[i].benchmarks[k].metric = metric

\* Some line of some file read names another metric at the metric position,
\* or has no field there.
SomeLineDisagrees ==
    \E i \in 1 .. Len(perflogs) : \E k \in 1 .. Len(perflogs[i].lines) :
        \/ ~HasMetricField(perflogs[i].lines[k])
        \/ FoundMetric(perflogs[i].lines[k]) # plot.metric

\* C10: for a plot built with a metric other than '*', every benchmark record
\* of every log file in every log-file group carries the plot's metric; when
\* a line read names another metric, construction fails instead.
C10_GroupMembersCarryPlotMetric ==
    (ConstructionAttempted /\ plot.metric # "*")
    => /\ plot.status = "constructed"
          => /\ AllCarry(plot.log_files, plot.metric)
             /\ Grouped
                => \A g \in 1 .. Len(Val(file_groups).groups) :
                     AllCarry(Val(file_groups).groups[g], plot.metric)
       /\ SomeLineDisagrees => plot.status = "failed"

\* C10 witness: a plot of the metric Rate was constructed and its files were
\* grouped, two of them (one with two records) into the same group.
C10_Witness ==
    /\ plot.status = "constructed"
    /\ plot.metric = "Rate"
    /\ Grouped
    /\ \E g \in 1 .. Len(Val(file_groups).groups) :
         /\ Len(Val(file_groups).groups[g]) >= 2
         /\ \E k \in 1 .. Len(Val(file_groups).groups[g]) :
              Len(Val(file_groups).groups[g][k].benchmarks) >= 2

(***************************************************************************)
(* Claims about TimeSeriesRegressionPlot (checked under SpecSeries and     *)
(* SpecCache).                                                             *)
(***************************************************************************)

\* _extract_data has run (to its end or to an exception).
ExtractionAttempted ==
    \/ ts_plot.pc \in {"extracted", "saved"}
    \/ ts_plot.pc = "failed" /\ ts_cache = None

\* The texts of the metric values of a log file's lines, in order.
RawValues(file) ==
    [k \in 1 .. Len(file.lines) |-> FoundValue(file.lines[k])]

\* The values stored for the cluster name, if any.
StoredFor(name) ==
    {ts_plot.data[i].y : i \in {j \in 1 .. Len(ts_plot.data) :
                                  ts_plot.data[j].k = name}}

\* C11: every relative value stored for a time series is the raw value
\* divided by the series' first observed value: a folder whose log file
\* holds the raw values 10, 20, 5 is stored as the series 1.0, 2.0, 0.5.
C11_RelativeValuesNormalised ==
    ExtractionAttempted
    => \A i \in 1 .. Len(ts_tree) :
         (/\ Len(ts_tree[i].files) = 1
          /\ RawValues(ts_tree[i].files[1]) = <<"10", "20", "5">>)
         => /\ ts_plot.exc = NoError
            /\ \E y \in StoredFor(ts_tree[i].name) :
                 /\ Len(y) = 3
                 /\ NumEq(y[1], FloatNum(1, 0))
                 /\ NumEq(y[2], FloatNum(2, 0))
                 /\ NumEq(y[3], FloatNum(5, 1))

(***************************************************************************)
(* Claims about block_average and blocked_array (checked under             *)
(* SpecBlocks).                                                            *)
(***************************************************************************)

CalledOnBlocks(fn) ==
    /\ call.fn = fn
    /\ Len(call.args[1]) > 0
    /\ call.args[2] >= 1

\* The blocks: the first element, the full blocks in order, the last element.
EndPointsAroundFullBlocks(array, k, blocks) ==
    /\ Len(blocks) = (Len(array) \div k) + 2
    /\ blocks[1] = <<array[1]>>
    /\ blocks[Len(blocks)] = <<array[Len(array)]>>
    /\ \A i \in 1 .. (Len(array) \div k) :
         /\ Len(blocks[i + 1]) = k
         /\ \A j \in 1 .. k : blocks[i + 1][j] = array[(i - 1) * k + j]

\* Each average times the size of its block is the sum of the block.
MeansOfBlocks(array, k, means) ==
    /\ Len(means) = (Len(array) \div k) + 2
    /\ RatioEq(means[1], Ratio(array[1], 1))
    /\ RatioEq(means[Len(means)], Ratio(array[Len(array)], 1))
    /\ \A i \in 1 .. (Len(array) \div k) :
         means[i + 1].num * k =
            means[i + 1].den * Sum([j \in 1 .. k |-> array[(i - 1) * k + j]])

\* C12: for a non-empty array and a block size k >= 1, blocked_array returns
\* the first element as a block, the floor(len/k) full blocks of k elements in
\* order, and the last element as a block; block_average gives the mean of
\* each of these blocks; [1, ..., 10] with block size 10 gives 1, 5.5, 10.
C12_BlocksAndMeans ==
    /\ CalledOnBlocks("blocked_array")
       => /\ call.exc = NoError
          /\ EndPointsAroundFullBlocks(call.args[1], call.args[2],
                                       Val(call.result))
    /\ CalledOnBlocks("block_average")
       => /\ call.exc = NoError
          /\ MeansOfBlocks(call.args[1], call.args[2], Val(call.result))
          /\ (call.args = <<Ramp(10), 10>>
              => /\ Len(Val(call.result)) = 3
                 /\ RatioEq(Val(call.result)[1], Ratio(1, 1))
                 /\ RatioEq(Val(call.result)[2], Ratio(55, 10))
                 /\ RatioEq(Val(call.result)[3], Ratio(10, 1)))

\* block_average returned for [1, ..., 10] with block size 10.
C12_Witness ==
    /\ call.fn = "block_average"
    /\ call.args = <<Ramp(10), 10>>
    /\ call.exc = NoError

(***************************************************************************)
(* Claims about HTMLFile (checked under SpecHtml).                         *)
(***************************************************************************)

\* The characters of the file between its line endings.
RECURSIVE TextLines(_)
TextLines(s) ==
    LET ends == {k \in 1 .. Len(s) : Ch(s, k) \in {"\n", "\r"}}
    IN IF ends = {} THEN <<s>>
       ELSE <<SubSeq(s, 1, Min(ends) - 1)>>
            \o TextLines(SubSeq(s, Min(ends) + 1, Len(s)))

\* Some line of the file ends in the digits of idx.
HasLineEndingIn(content, idx) ==
    \E k \in 1 .. Len(TextLines(content)) :
        EndsWith(TextLines(content)[k], StrInt(idx))

\* C13: when the file has no line ending in the numbered anchor idx,
\* replace(idx, s) raises RuntimeError and the content of the file after the
\* call is identical to its content before the call.
C13_MissingAnchorRaisesAndKeepsFile ==
    (html.pc = "replaced" /\ ~HasLineEndingIn(html.before, Val(html.idx)))
    => /\ html.exc.type = "RuntimeError"
       /\ html.content = html.before

\* replace was called on a file whose lines all end in "\n", on a platform
\* that writes "\n".
ReplacedInLines ==
    /\ html.pc = "replaced"
    /\ html.linesep = "\n"
    /\ ~StrIn("\r", html.before)

\* C21: replace(idx, s) replaces only lines whose whole content is the integer
\* idx: every other line, a line that merely ends in the digits of idx
\* included, is written back unchanged and in its original order.
C21_OnlyWholeLineAnchorsReplaced ==
    ReplacedInLines
    => /\ Len(Split(html.content, "\n")) = Len(Split(html.before, "\n"))
       /\ \A k \in 1 .. Len(Split(html.before, "\n")) :
            Split(html.before, "\n")[k] # StrInt(Val(html.idx))
            => Split(html.content, "\n")[k] = Split(html.before, "\n")[k]

\* add_before_end_body was called on a file with exactly one line that has
\* the closing body marker (lines ending in "\n", written with "\n").
AddedWithOneMarker ==
    /\ html.pc = "added"
    /\ html.linesep = "\n"
    /\ ~StrIn("\r", html.before)
    /\ Cardinality({k \in 1 .. Len(Split(html.before, "\n")) :
                      StrIn("</body>", Split(html.before, "\n")[k])}) = 1

\* The lines of a text that are not empty, in order.
RECURSIVE NonEmptyLines(_)
NonEmptyLines(lines) ==
    IF lines = <<>> THEN <<>>
    ELSE (IF Head(lines) = "" THEN <<>> ELSE <<Head(lines)>>)
         \o NonEmptyLines(Tail(lines))

\* The lines without the lines equal to s.
RECURSIVE Without(_, _)
Without(lines, s) ==
    IF lines = <<>> THEN <<>>
    ELSE (IF Head(lines) = s THEN <<>> ELSE <<Head(lines)>>)
         \o Without(Tail(lines), s)

\* s is on exactly one line, and that line is before the marker line.
OnceBeforeMarker(lines, s) ==
    /\ Cardinality({k \in 1 .. Len(lines) : lines[k] = s}) = 1
    /\ \A k, m \in 1 .. Len(lines) :
         (lines[k] = s /\ StrIn("</body>", lines[m])) => k < m

\* C22: on a file with exactly one line that has '</body>',
\* add_before_end_body(s) inserts s exactly once, before that line, and writes
\* all original lines back in their order, wherever the marker line is, the
\* first line included.
C22_ScriptOnceBeforeBodyEnd ==
    AddedWithOneMarker
    => /\ html.exc = NoError
       /\ OnceBeforeMarker(Split(html.content, "\n"), ScriptString)
       /\ Without(NonEmptyLines(Split(html.content, "\n")), ScriptString)
            = NonEmptyLines(Split(html.before, "\n"))

\* A later construction read the cache file an earlier one wrote.
LoadedWhatWasSaved == ts_plot.pc \in {"loaded", "failed"} /\ ts_plot.saved # None

\* The number of times the character c occurs in s.
Count(c, s) == Cardinality({k \in 1 .. Len(s) : Ch(s, k) = c})

\* name:csv_of_x|csv_of_y for a series of n points, with the line ending
\* print() adds.
SeriesLineForm(line, name, n) ==
    /\ SubSeq(line, 1, Len(name) + 1) = name \o ":"
    /\ Ch(line, Len(line)) = "\n"
    /\ Count(":", line) = 1
    /\ Count("|", line) = 1
    /\ Count(",", Split(line, "|")[1]) = (IF n = 0 THEN 0 ELSE n - 1)
    /\ Count(",", Split(line, "|")[2]) = (IF n = 0 THEN 0 ELSE n - 1)

\* The positions in the saved data of the series that have points.
RECURSIVE WithPoints(_, _)
WithPoints(saved, i) ==
    IF i > Len(saved) THEN <<>>
    ELSE (IF Len(saved[i].x) > 0 THEN <<i>> ELSE <<>>)
         \o WithPoints(saved, i + 1)

SameNumbers(a, b) ==
    /\ Len(a) = Len(b)
    /\ \A j \in 1 .. Len(a) : NumEq(a[j], b[j])

\* The loaded series are the saved series that have points, in order, each
\* with its name, its x values and its y values.
RestoredFrom(saved, kept, loaded) ==
    /\ Len(loaded) = Len(kept)
    /\ \A j \in 1 .. Len(kept) :
         /\ loaded[j].k = saved[kept[j]].k
         /\ SameNumbers(loaded[j].x, saved[kept[j]].x)
         /\ SameNumbers(loaded[j].y, saved[kept[j]].y)

\* C17: _save_data writes one line name:csv_of_x|csv_of_y per series, and
\* load_cached_data_from_file on that file restores every series that has a
\* point, with the same name, x values and y values in the same order, and
\* skips with a warning every series that has none.
C17_CacheRoundTrips ==
    LoadedWhatWasSaved
    => /\ ts_plot.exc = NoError
       /\ Len(Val(ts_cache)) = Len(Val(ts_plot.saved))
       /\ \A i \in 1 .. Len(Val(ts_plot.saved)) :
            SeriesLineForm(Val(ts_cache)[i], Val(ts_plot.saved)[i].k,
                           Len(Val(ts_plot.saved)[i].x))
       /\ RestoredFrom(Val(ts_plot.saved), WithPoints(Val(ts_plot.saved), 1),
                       ts_plot.data)
       /\ ts_plot.warned =
            {Val(ts_plot.saved)[i].k :
               i \in {j \in 1 .. Len(Val(ts_plot.saved)) :
                        Len(Val(ts_plot.saved)[j].x) = 0}}

\* A file with one series of two points and one series without points was
\* written and loaded again.
C17_Witness ==
    /\ ts_plot.pc = "loaded"
    /\ ts_plot.saved # None
    /\ Len(Val(ts_plot.saved)) = 2
    /\ Len(ts_plot.data) = 1
    /\ Len(ts_plot.data[1].x) = 2
    /\ ts_plot.warned # {}

(***************************************************************************)
(* Claims about TimeSeriesRegressionPlot.smoothed (checked under           *)
(* SpecSmooth).                                                            *)
(***************************************************************************)

SmoothedReturned == call.fn = "smoothed" /\ Len(ts_plot.data[1].x) > 0

RECURSIVE TotalLen(_)
TotalLen(bins) ==
    IF bins = <<>> THEN 0 ELSE Len(Head(bins)) + TotalLen(Tail(bins))

\* C18: smoothed sorts the series by timestamp, divides [min timestamp, max
\* timestamp] into n bins and assigns every point of the series to exactly one
\* bin, whose values are averaged: no point is left out of the averages.
C18_EveryPointInOneBin ==
    SmoothedReturned
    => /\ call.exc = NoError
       /\ TotalLen(Val(call.result).rel_metrics) = Len(ts_plot.data[1].x)
       /\ TotalLen(Val(call.result).dates) = Len(ts_plot.data[1].x)

(***************************************************************************)
(* Claims about the series StrongScalingPlot draws (checked under          *)
(* SpecClusters).                                                          *)
(***************************************************************************)

PlotConstructed == plot.status = "constructed"

\* C25: bokeh_components draws one line series for every log-file group,
\* whatever the number of groups: there are as many series as groups, and
\* every group name given to the hover tool is the name of a series.
C25_OneSeriesPerGroup ==
    PlotConstructed
    => /\ Len(plot.series) = Len(LogFileGroups(plot.log_files, 1).groups)
       /\ Len(plot.series) = Len(plot.hover_names)
       /\ \A k \in 1 .. Len(plot.hover_names) :
            \E j \in 1 .. Len(plot.series) :
                plot.series[j].name = plot.hover_names[k]


(***************************************************************************)
(* Claims about inject_all (checked under SpecInject).                     *)
(***************************************************************************)

\* inject_div_at raised RuntimeError: the anchor of the plot is not there.
AnchorAbsent ==
    /\ call.fn = "inject_all"
    /\ html.pc = "failed"
    /\ html.exc.type = "RuntimeError"

\* The target is a template of the injection contract: exactly one of its
\* lines has the closing body marker.
OneBodyMarker ==
    Cardinality({k \in 1 .. Len(CurrentFileLines(html.content)) :
                   StrIn("</body>", CurrentFileLines(html.content)[k])}) = 1

\* s is a line of the target file.
InTarget(s) ==
    \E k \in 1 .. Len(CurrentFileLines(html.content)) :
        CurrentFileLines(html.content)[k] = s \o "\n"

\* The script and the div of every plot before the one the loop is at are in
\* the target file.
EarlierInjectionsRemain ==
    \A j \in 1 .. Val(call.result) - 1 :
        /\ InTarget(PlotScript(call.args[j]))
        /\ InTarget(PlotDiv(call.args[j]))

\* C26: inject_all writes the script of a plot into the target before it
\* replaces the anchor of the plot and rolls nothing back: when the anchor is
\* absent and RuntimeError is raised, the script of that plot is already in
\* the target, and so are the script and the div of every earlier plot.
C26_ScriptWrittenBeforeAnchorError ==
    (AnchorAbsent /\ OneBodyMarker)
    => /\ InTarget(PlotScript(PlotIdx))
       /\ EarlierInjectionsRemain

====
